---------------------------- MODULE Spec2Model ----------------------------
(***************************************************************************)
(* A model of two parts of the ballistica scripting layer:                 *)
(*                                                                         *)
(*   - the entity field descriptors of bafoundation/entity/_field.py       *)
(*     (Field, CompoundField, ListField, DictField, CompoundListField,     *)
(*     CompoundDictField): their filter_input / filter_output /            *)
(*     prune_data functions, and their attribute access (__get__) and      *)
(*     whole-value assignment (__set__) over a document heap;              *)
(*   - the app-intent machinery of babase/_app.py (set_intent, the         *)
(*     background _set_intent job and the logic-thread _apply_intent).     *)
(*                                                                         *)
(* Three specifications share the module: SpecPure applies the pure field  *)
(* functions to bounded inputs, SpecEntity runs attribute accesses,        *)
(* assignments and mutations over a heap of document objects, SpecApp runs *)
(* the app.                                                                *)
(***************************************************************************)
EXTENDS Integers, Sequences, FiniteSets, TLC

VARIABLES
    fcall,      \* the field-function call under way: [op, field, data, error]
    fres,       \* its outcome, NoResult until the call has run
    fprev,      \* the outcome of the first call once a second one has run
    heap,       \* the document objects, by address
    last,       \* the latest operation on the entity and how it ended
    iso,        \* source and target slice of the latest CompoundField copy
    held,       \* the compound slices the caller holds bound views of
    views,      \* the bound views taken by attribute access, in order
    nops,       \* operations on the entity so far
    app         \* the App object, its thread pool and the logic-thread queue

pureVars   == <<fcall, fres, fprev>>
entityVars == <<heap, last, iso, held, views, nops>>
appVars    == <<app>>
vars       ==
    <<fcall, fres, fprev, heap, last, iso, held, views, nops, app>>

(***************************************************************************)
(* Bounds of the model.                                                    *)
(***************************************************************************)
MaxLen == 2         \* longest list / largest dict given to a field function
MaxOps == 3         \* operations on the entity in one run
MaxAssignLen == 2   \* longest list / largest dict assigned to a field
MaxWheels == 1      \* longest wheels list an append may produce
MaxSetIntent == 2   \* set_intent calls made from outside the app

(***************************************************************************)
(* Document values.  The document is a tree of Python values; every value  *)
(* carries its Python type in "kind".  Strings are numbered literals.  A   *)
(* dict is the sequence of its <<key, value>> entries in insertion order   *)
(* (keys unique), a list the sequence of its elements.                     *)
(***************************************************************************)
IntV(n)  == [kind |-> "int",  val |-> n]
FloatV(n) == [kind |-> "float", val |-> n]
EnumV(n)  == [kind |-> "enum", val |-> n]
StrV(n)  == [kind |-> "str",  val |-> n]
NoneV    == [kind |-> "none", val |-> 0]
ListV(s) == [kind |-> "list", val |-> s]
DictV(s) == [kind |-> "dict", val |-> s]

\* Python's isinstance(v, t) for the types of the model.
IsInstance(v, t) == v.kind = t

\* Python truthiness, as "not data" reads it.
Truthy(v) ==
    CASE v.kind = "int"  -> v.val # 0
      [] v.kind = "float" -> v.val # 0
      [] v.kind = "enum" -> TRUE
      [] v.kind = "str"  -> v.val # 0         \* literal 0 is the empty string
      [] v.kind = "none" -> FALSE
      [] OTHER           -> v.val # <<>>       \* list, dict

DictKeys(d)    == {d.val[i][1] : i \in 1..Len(d.val)}
DictHas(d, k)  == \E i \in 1..Len(d.val) : d.val[i][1] = k
DictGet(d, k)  == d.val[CHOOSE i \in 1..Len(d.val) : d.val[i][1] = k][2]
\* d[k] = v: replaces the value in place, or appends a new entry last.
DictSet(d, k, v) ==
    IF DictHas(d, k)
    THEN DictV([i \in 1..Len(d.val) |->
                    IF d.val[i][1] = k THEN <<k, v>> ELSE d.val[i]])
    ELSE DictV(Append(d.val, <<k, v>>))
\* del d[k]
DictDel(d, k) == DictV(SelectSeq(d.val, LAMBDA e : e[1] # k))

\* The outcome of a call: the exception raised ("none": it returned), the
\* returned value, and the argument container as the call left it (the
\* functions that work in place change it).
Returned(ret, data) == [exc |-> "none", ret |-> ret, data |-> data]
Raised(exc, data)   == [exc |-> exc, ret |-> NoneV, data |-> data]
NoResult            == [exc |-> "pending", ret |-> NoneV, data |-> NoneV]


(***************************************************************************)
(* Strings of the model: the document keys of the schemas and two keys for *)
(* dict fields.                                                            *)
(***************************************************************************)
K_color  == StrV(1)
K_wheels == StrV(2)
K_a      == StrV(3)
K_b      == StrV(4)

(***************************************************************************)
(* Value descriptors: what a field delegates to.  A TypedValue validates   *)
(* one primitive and carries its own store_default flag; a CompoundValue   *)
(* (a schema object) is a bundle of field descriptors.  "id" tells schema  *)
(* objects apart: two schema objects may hold the same fields.             *)
(***************************************************************************)
TypedValue(sd) ==
    [type |-> "IntValue", id |-> "IntValue", store_default |-> sd,
     fields |-> <<>>]
FloatValue(sd) ==
    [type |-> "FloatValue", id |-> "FloatValue", store_default |-> sd,
     fields |-> <<>>]
EnumValue(sd) ==
    [type |-> "EnumValue", id |-> "EnumValue", store_default |-> sd,
     fields |-> <<>>]
CompoundValue(id, fields) ==
    [type |-> "CompoundValue", id |-> id, store_default |-> TRUE,
     fields |-> fields]

(***************************************************************************)
(* A TypedValue validates or coerces one primitive.  Three are modelled,   *)
(* all with default 0: an integer value, which stores an integer as it is; *)
(* a float value, which stores a float as it is and coerces an integer to  *)
(* a float; an enum value, which stores the integer of an enum member and  *)
(* hands the member back on output.  A value filter_input cannot take      *)
(* raises with error=True and is replaced by the default with error=False. *)
(***************************************************************************)
TypedValue_get_default_data(tv) ==
    IF tv.type = "FloatValue" THEN FloatV(0) ELSE IntV(0)

TypedValue_reject(tv, data, error) ==
    IF error THEN Raised("TypeError", data)
    ELSE Returned(TypedValue_get_default_data(tv), data)

TypedValue_filter_input(tv, data, error) ==
    CASE tv.type = "FloatValue" ->
             IF IsInstance(data, "float") THEN Returned(data, data)
             ELSE IF IsInstance(data, "int")
                  THEN Returned(FloatV(data.val), data)
             ELSE TypedValue_reject(tv, data, error)
      [] tv.type = "EnumValue" ->
             IF IsInstance(data, "enum") THEN Returned(IntV(data.val), data)
             ELSE TypedValue_reject(tv, data, error)
      [] OTHER ->
             IF IsInstance(data, "int") THEN Returned(data, data)
             ELSE TypedValue_reject(tv, data, error)

TypedValue_filter_output(tv, data) ==
    IF tv.type = "EnumValue" THEN EnumV(data.val) ELSE data

TypedValue_prune_data(tv, data) ==
    /\ ~tv.store_default
    /\ data.kind = TypedValue_get_default_data(tv).kind
    /\ data.val = TypedValue_get_default_data(tv).val

(***************************************************************************)
(* Field descriptors.  A descriptor holds its class, its document key, its *)
(* own _store_default flag, the key type of a dict field and its child     *)
(* value descriptor d_value.                                               *)
(***************************************************************************)
Descriptor(cls, key, sd, keytype, child) ==
    [cls |-> cls, d_key |-> key, store_default |-> sd,
     keytype |-> keytype, d_value |-> child]

\* Field.get_default_data
Field_get_default_data(f) == TypedValue_get_default_data(f.d_value)

\* Field.filter_input
Field_filter_input(f, data, error) ==
    TypedValue_filter_input(f.d_value, data, error)

\* A variant that hands the stored primitive back as it is stored, without
\* the value's conversion to the logical type.
Field_filter_output_raw(f, data) == data

\* Field.filter_output
Field_filter_output(f, data) == TypedValue_filter_output(f.d_value, data)

\* Field.prune_data: the child value decides, with the child's flag.
Field_prune_data(f, data) ==
    Returned(TypedValue_prune_data(f.d_value, data), data)

(***************************************************************************)
(* ListField                                                               *)
(***************************************************************************)
ListField_get_default_data(f) == ListV(<<>>)

\* The loop of ListField.filter_input: data[i] = d_value.filter_input(entry)
\* for each index in order, in place; a raise leaves the list as it is then.
RECURSIVE ListField_filter_loop(_, _, _, _)
ListField_filter_loop(f, data, i, error) ==
    IF i > Len(data.val) THEN Returned(data, data)
    ELSE LET r == TypedValue_filter_input(f.d_value, data.val[i], error) IN
         IF r.exc # "none" THEN Raised(r.exc, data)
         ELSE ListField_filter_loop(
                  f, ListV([data.val EXCEPT ![i] = r.ret]), i + 1, error)

\* A variant that with error=False drops the elements the child value does
\* not take, as the dict fields drop the entries with an ill-typed key.
ListField_filter_input_drop(f, data, error) ==
    IF ~IsInstance(data, "list")
    THEN IF error THEN Raised("TypeError", data)
         ELSE Returned(ListV(<<>>), data)
    ELSE IF error THEN ListField_filter_loop(f, data, 1, error)
    ELSE LET taken(v) ==
                 TypedValue_filter_input(f.d_value, v, TRUE).exc = "none"
         IN  ListField_filter_loop(
                 f, ListV(SelectSeq(data.val, taken)), 1, error)

\* A variant that hands the list back as it was passed in when an element
\* raises (the elements filtered into a copy, not in place).
ListField_filter_input_atomic(f, data, error) ==
    IF ~IsInstance(data, "list")
    THEN IF error THEN Raised("TypeError", data)
         ELSE Returned(ListV(<<>>), data)
    ELSE LET r == ListField_filter_loop(f, data, 1, error) IN
         IF r.exc # "none" THEN Raised(r.exc, data) ELSE r

\* A variant that raises for input that is no list whatever the error flag
\* says.
ListField_filter_input_strict(f, data, error) ==
    IF ~IsInstance(data, "list")
    THEN Raised("TypeError", data)
    ELSE ListField_filter_loop(f, data, 1, error)

\* ListField.filter_input.  Input that is no list raises with error=True and
\* is replaced by a new empty list otherwise (the input is left alone).
ListField_filter_input(f, data, error) ==
    IF ~IsInstance(data, "list")
    THEN IF error THEN Raised("TypeError", data)
         ELSE Returned(ListV(<<>>), data)
    ELSE ListField_filter_loop(f, data, 1, error)

\* ListField.prune_data: not data and not self._store_default
ListField_prune_data(f, data) ==
    Returned(~Truthy(data) /\ ~f.store_default, data)

(***************************************************************************)
(* DictField                                                               *)
(***************************************************************************)
DictField_get_default_data(f) == DictV(<<>>)

\* The loop of DictField.filter_input over data.items(), filling data_out.
RECURSIVE DictField_filter_loop(_, _, _, _, _)
DictField_filter_loop(f, data, i, data_out, error) ==
    IF i > Len(data.val) THEN Returned(data_out, data)
    ELSE LET key == data.val[i][1]
             val == data.val[i][2]
         IN  IF ~IsInstance(key, f.keytype)
             THEN IF error THEN Raised("TypeError", data)
                  ELSE DictField_filter_loop(f, data, i + 1, data_out, error)
             ELSE LET r == TypedValue_filter_input(f.d_value, val, error) IN
                  IF r.exc # "none" THEN Raised(r.exc, data)
                  ELSE DictField_filter_loop(
                           f, data, i + 1, DictSet(data_out, key, r.ret), error)

\* A variant whose loop ends at the first entry with an ill-typed key
\* ("break" in place of "continue").
RECURSIVE DictField_filter_loop_break(_, _, _, _, _)
DictField_filter_loop_break(f, data, i, data_out, error) ==
    IF i > Len(data.val) THEN Returned(data_out, data)
    ELSE LET key == data.val[i][1]
             val == data.val[i][2]
         IN  IF ~IsInstance(key, f.keytype)
             THEN IF error THEN Raised("TypeError", data)
                  ELSE Returned(data_out, data)
             ELSE LET r == TypedValue_filter_input(f.d_value, val, error) IN
                  IF r.exc # "none" THEN Raised(r.exc, data)
                  ELSE DictField_filter_loop_break(
                           f, data, i + 1, DictSet(data_out, key, r.ret), error)

DictField_filter_input_break(f, data, error) ==
    IF ~IsInstance(data, "dict")
    THEN IF error THEN Raised("TypeError", data)
         ELSE Returned(DictV(<<>>), data)
    ELSE DictField_filter_loop_break(f, data, 1, DictV(<<>>), error)

\* A variant whose loop runs as with error=False whatever the flag says: an
\* ill-typed key is skipped, never raised.
DictField_filter_input_skip(f, data, error) ==
    IF ~IsInstance(data, "dict")
    THEN IF error THEN Raised("TypeError", data)
         ELSE Returned(DictV(<<>>), data)
    ELSE DictField_filter_loop(f, data, 1, DictV(<<>>), FALSE)

\* DictField.filter_input
DictField_filter_input(f, data, error) ==
    IF ~IsInstance(data, "dict")
    THEN IF error THEN Raised("TypeError", data)
         ELSE Returned(DictV(<<>>), data)
    ELSE DictField_filter_loop(f, data, 1, DictV(<<>>), error)

\* DictField.prune_data: not data and not self._store_default
DictField_prune_data(f, data) ==
    Returned(~Truthy(data) /\ ~f.store_default, data)

(***************************************************************************)
(* The functions of a leaf field (a field of a compound schema), by class. *)
(***************************************************************************)
LeafField_filter_input(f, data, error) ==
    CASE f.cls = "Field"     -> Field_filter_input(f, data, error)
      [] f.cls = "ListField" -> ListField_filter_input(f, data, error)
      [] f.cls = "DictField" -> DictField_filter_input(f, data, error)

LeafField_prune_data(f, data) ==
    CASE f.cls = "Field"     -> Field_prune_data(f, data)
      [] f.cls = "ListField" -> ListField_prune_data(f, data)
      [] f.cls = "DictField" -> DictField_prune_data(f, data)

LeafField_get_default_data(f) ==
    CASE f.cls = "Field"     -> Field_get_default_data(f)
      [] f.cls = "ListField" -> ListField_get_default_data(f)
      [] f.cls = "DictField" -> DictField_get_default_data(f)

(***************************************************************************)
(* CompoundValue: the schema object.  get_fields gives its descriptors in  *)
(* order; filter_input runs each stored field through its own filter, in   *)
(* place; prune_fields_data deletes each stored field its descriptor finds *)
(* prunable, in place.                                                     *)
(***************************************************************************)
CompoundValue_get_fields(cv) == cv.fields

RECURSIVE CompoundValue_default_loop(_, _, _)
CompoundValue_default_loop(cv, i, out) ==
    IF i > Len(cv.fields) THEN out
    ELSE CompoundValue_default_loop(
             cv, i + 1,
             DictSet(out, cv.fields[i].d_key,
                     LeafField_get_default_data(cv.fields[i])))

CompoundValue_get_default_data(cv) ==
    CompoundValue_default_loop(cv, 1, DictV(<<>>))

RECURSIVE CompoundValue_filter_loop(_, _, _, _)
CompoundValue_filter_loop(cv, data, i, error) ==
    IF i > Len(cv.fields) THEN Returned(data, data)
    ELSE LET f == cv.fields[i] IN
         IF ~DictHas(data, f.d_key)
         THEN CompoundValue_filter_loop(cv, data, i + 1, error)
         ELSE LET r == LeafField_filter_input(f, DictGet(data, f.d_key), error)
              IN  IF r.exc # "none" THEN Raised(r.exc, data)
                  ELSE CompoundValue_filter_loop(
                           cv, DictSet(data, f.d_key, r.ret), i + 1, error)

CompoundValue_filter_input(cv, data, error) ==
    IF ~IsInstance(data, "dict")
    THEN IF error THEN Raised("TypeError", data)
         ELSE Returned(DictV(<<>>), data)
    ELSE CompoundValue_filter_loop(cv, data, 1, error)

RECURSIVE CompoundValue_prune_loop(_, _, _)
CompoundValue_prune_loop(cv, data, i) ==
    IF i > Len(cv.fields) THEN data
    ELSE LET f == cv.fields[i] IN
         IF /\ DictHas(data, f.d_key)
            /\ LeafField_prune_data(f, DictGet(data, f.d_key)).ret
         THEN CompoundValue_prune_loop(cv, DictDel(data, f.d_key), i + 1)
         ELSE CompoundValue_prune_loop(cv, data, i + 1)

\* The element's data after CompoundValue.prune_fields_data(data).
CompoundValue_prune_fields_data(cv, data) ==
    CompoundValue_prune_loop(cv, data, 1)

(***************************************************************************)
(* CompoundField                                                           *)
(***************************************************************************)
CompoundField_get_default_data(f) == CompoundValue_get_default_data(f.d_value)

CompoundField_filter_input(f, data, error) ==
    CompoundValue_filter_input(f.d_value, data, error)

(***************************************************************************)
(* CompoundListField                                                       *)
(***************************************************************************)
CompoundListField_get_default_data(f) == ListV(<<>>)

\* The loop of CompoundListField.filter_input:
\* data[i] = self.d_value.filter_input(subdata, error=error), in place.
RECURSIVE CompoundListField_filter_loop(_, _, _, _)
CompoundListField_filter_loop(f, data, i, error) ==
    IF i > Len(data.val) THEN Returned(data, data)
    ELSE LET r == CompoundValue_filter_input(f.d_value, data.val[i], error) IN
         IF r.exc # "none"
         THEN Raised(r.exc, ListV([data.val EXCEPT ![i] = r.data]))
         ELSE CompoundListField_filter_loop(
                  f, ListV([data.val EXCEPT ![i] = r.ret]), i + 1, error)

\* CompoundListField.filter_input
CompoundListField_filter_input(f, data, error) ==
    IF ~IsInstance(data, "list")
    THEN IF error THEN Raised("TypeError", data)
         ELSE Returned(ListV(<<>>), data)
    ELSE CompoundListField_filter_loop(f, data, 1, error)

\* A variant that removes an element pruned to nothing while it walks the
\* list, so that the element after a removed one is stepped over.
RECURSIVE CompoundListField_prune_remove_loop(_, _, _)
CompoundListField_prune_remove_loop(f, data, i) ==
    IF i > Len(data.val) THEN data
    ELSE LET pruned == CompoundValue_prune_fields_data(f.d_value, data.val[i])
         IN  IF Truthy(pruned)
             THEN CompoundListField_prune_remove_loop(
                      f, ListV([data.val EXCEPT ![i] = pruned]), i + 1)
             ELSE CompoundListField_prune_remove_loop(
                      f, ListV(SubSeq(data.val, 1, i - 1)
                                   \o SubSeq(data.val, i + 1, Len(data.val))),
                      i + 1)

CompoundListField_pruned_entries_remove(f, data) ==
    CompoundListField_prune_remove_loop(f, data, 1)

\* A variant that takes the elements pruned to nothing out of the list.
CompoundListField_pruned_entries_drop(f, data) ==
    LET pruned(v) == CompoundValue_prune_fields_data(f.d_value, v)
        kept(v) == Truthy(pruned(v))
        rest == SelectSeq(data.val, kept)
    IN  ListV([i \in 1..Len(rest) |-> pruned(rest[i])])

\* The elements after "for subdata in data: prune_fields_data(subdata)".
CompoundListField_pruned_entries(f, data) ==
    ListV([i \in 1..Len(data.val) |->
               CompoundValue_prune_fields_data(f.d_value, data.val[i])])

\* A variant that reads a list of emptied elements as an empty list
\* ("not any(data)" in place of "not data").
CompoundListField_prune_result_any(f, data) ==
    ~(\E i \in 1..Len(data.val) : Truthy(data.val[i])) /\ ~f.store_default

\* The value CompoundListField.prune_data returns for the (pruned) list:
\* not data and not self._store_default
CompoundListField_prune_result(f, data) ==
    ~Truthy(data) /\ ~f.store_default

\* CompoundListField.prune_data
CompoundListField_prune_data(f, data) ==
    LET pruned == CompoundListField_pruned_entries(f, data)
    IN  Returned(CompoundListField_prune_result(f, pruned), pruned)

(***************************************************************************)
(* CompoundDictField                                                       *)
(***************************************************************************)
CompoundDictField_get_default_data(f) == DictV(<<>>)

\* The loop of CompoundDictField.filter_input over data.items().
RECURSIVE CompoundDictField_filter_loop(_, _, _, _, _)
CompoundDictField_filter_loop(f, data, i, data_out, error) ==
    IF i > Len(data.val) THEN Returned(data_out, data)
    ELSE LET key == data.val[i][1]
             val == data.val[i][2]
         IN  IF ~IsInstance(key, f.keytype)
             THEN IF error THEN Raised("TypeError", data)
                  ELSE CompoundDictField_filter_loop(
                           f, data, i + 1, data_out, error)
             ELSE LET r == CompoundValue_filter_input(f.d_value, val, error)
                      now == DictV([data.val EXCEPT ![i] = <<key, r.data>>])
                  IN  IF r.exc # "none" THEN Raised(r.exc, now)
                      ELSE CompoundDictField_filter_loop(
                               f, now, i + 1,
                               DictSet(data_out, key, r.ret), error)

\* CompoundDictField.filter_input
CompoundDictField_filter_input(f, data, error) ==
    IF ~IsInstance(data, "dict")
    THEN IF error THEN Raised("TypeError", data)
         ELSE Returned(DictV(<<>>), data)
    ELSE CompoundDictField_filter_loop(f, data, 1, DictV(<<>>), error)

\* The entries after "for subdata in data.values(): prune_fields_data(..)".
CompoundDictField_pruned_entries(f, data) ==
    DictV([i \in 1..Len(data.val) |->
               <<data.val[i][1],
                 CompoundValue_prune_fields_data(f.d_value, data.val[i][2])>>])

\* CompoundDictField.prune_data
CompoundDictField_prune_data(f, data) ==
    LET pruned == CompoundDictField_pruned_entries(f, data)
    IN  Returned(~Truthy(pruned) /\ ~f.store_default, pruned)

(***************************************************************************)
(* The field functions by descriptor class.                                *)
(***************************************************************************)
filter_input(f, data, error) ==
    CASE f.cls = "Field"             -> Field_filter_input(f, data, error)
      [] f.cls = "CompoundField"     -> CompoundField_filter_input(f, data, error)
      [] f.cls = "ListField"         -> ListField_filter_input(f, data, error)
      [] f.cls = "DictField"         -> DictField_filter_input(f, data, error)
      [] f.cls = "CompoundListField" ->
             CompoundListField_filter_input(f, data, error)
      [] f.cls = "CompoundDictField" ->
             CompoundDictField_filter_input(f, data, error)

prune_data(f, data) ==
    CASE f.cls = "Field"             -> Field_prune_data(f, data)
      [] f.cls = "ListField"         -> ListField_prune_data(f, data)
      [] f.cls = "DictField"         -> DictField_prune_data(f, data)
      [] f.cls = "CompoundListField" -> CompoundListField_prune_data(f, data)
      [] f.cls = "CompoundDictField" -> CompoundDictField_prune_data(f, data)

(***************************************************************************)
(* The schema of the model: Car, with a scalar "color" (an integer value   *)
(* whose default is not stored) and a list "wheels".                       *)
(***************************************************************************)
ColorField  == Descriptor("Field", K_color, FALSE, "none", TypedValue(FALSE))
WheelsField == Descriptor("ListField", K_wheels, FALSE, "none",
                          TypedValue(TRUE))
CarFields   == <<ColorField, WheelsField>>
CarValue    == CompoundValue("Car", CarFields)

\* The container fields the functions are applied to.
ContainerField(cls, sd) ==
    CASE cls = "ListField" ->
             Descriptor(cls, K_wheels, sd, "none", TypedValue(TRUE))
      [] cls = "DictField" ->
             Descriptor(cls, K_a, sd, "str", TypedValue(TRUE))
      [] cls = "CompoundListField" ->
             Descriptor(cls, K_a, sd, "none", CarValue)
      [] cls = "CompoundDictField" ->
             Descriptor(cls, K_a, sd, "str", CarValue)

ContainerClasses ==
    {"ListField", "DictField", "CompoundListField", "CompoundDictField"}

IsListClass(cls) == cls \in {"ListField", "CompoundListField"}
IsCompoundClass(cls) == cls \in {"CompoundListField", "CompoundDictField"}

(***************************************************************************)
(* Bounded inputs of the field functions.                                  *)
(***************************************************************************)
SeqsUpTo(S, n) == UNION {[1..k -> S] : k \in 0..n}

\* Stored scalars, and raw scalars as input hands them in (one ill-typed).
StoredScalars == {IntV(0), IntV(1)}
RawScalars    == StoredScalars \cup {StrV(3)}

\* Stored Car documents: empty, all defaults, not default; raw ones add a
\* document with an ill-typed color and a value that is no dict.
StoredCars ==
    { DictV(<<>>),
      DictV(<< <<K_color, IntV(0)>>, <<K_wheels, ListV(<<>>)>> >>),
      DictV(<< <<K_color, IntV(1)>>, <<K_wheels, ListV(<<IntV(1)>>)>> >>) }
RawCars ==
    StoredCars \cup {DictV(<< <<K_color, StrV(3)>> >>), IntV(1)}

\* Dict keys: two strings (the declared key type) and an integer.
StoredKeys == {K_a, K_b}
RawKeys    == StoredKeys \cup {IntV(1)}

ListsOf(S) == {ListV(s) : s \in SeqsUpTo(S, MaxLen)}
DictsOf(K, S) ==
    {DictV(s) : s \in {t \in SeqsUpTo(K \X S, MaxLen) :
                          \A i, j \in 1..Len(t) : i # j => t[i][1] # t[j][1]}}

\* Values of the wrong container kind.
NotAList == {IntV(1), NoneV, DictV(<<>>)}
NotADict == {IntV(1), NoneV, ListV(<<>>)}

StoredData(cls) ==
    CASE cls = "ListField"         -> ListsOf(StoredScalars)
      [] cls = "DictField"         -> DictsOf(StoredKeys, StoredScalars)
      [] cls = "CompoundListField" -> ListsOf(StoredCars)
      [] cls = "CompoundDictField" -> DictsOf(StoredKeys, StoredCars)

RawData(cls) ==
    CASE cls = "ListField"         -> ListsOf(RawScalars) \cup NotAList
      [] cls = "DictField"         -> DictsOf(RawKeys, RawScalars) \cup NotADict
      [] cls = "CompoundListField" -> ListsOf(RawCars) \cup NotAList
      [] cls = "CompoundDictField" -> DictsOf(RawKeys, RawCars) \cup NotADict

\* A list of floats, whose child value coerces integers.
RatiosField == Descriptor("ListField", K_b, FALSE, "none", FloatValue(TRUE))

\* Scalar fields: the field's own store_default flag and the flag of its
\* value are given separately, as Field.__init__ takes them.
ScalarValues ==
    UNION {{TypedValue(b), FloatValue(b), EnumValue(b)} : b \in BOOLEAN}
ScalarField(sd, value) == Descriptor("Field", K_color, sd, "none", value)
StoredOf(value) ==
    IF value.type = "FloatValue" THEN {FloatV(0), FloatV(1)}
    ELSE StoredScalars

FCall(op, f, data, error) ==
    [op |-> op, field |-> f, data |-> data, error |-> error]

PruneCalls ==
    {FCall("prune_data", ContainerField(cls, sd), d, FALSE) :
        <<cls, sd, d>> \in
            UNION {{<<c, b, x>> : x \in StoredData(c)} :
                       <<c, b>> \in ContainerClasses \X BOOLEAN}}

FilterCalls ==
    {FCall("filter_input", ContainerField(cls, FALSE), d, e) :
        <<cls, e, d>> \in
            UNION {{<<c, b, x>> : x \in RawData(c)} :
                       <<c, b>> \in ContainerClasses \X BOOLEAN}}

CoerceCalls ==
    {FCall("filter_input", RatiosField, d, e) :
        <<d, e>> \in ListsOf(RawScalars) \X BOOLEAN}

ScalarPruneCalls ==
    {FCall("prune_data", ScalarField(sd, v), d, FALSE) :
        <<sd, v, d>> \in
            UNION {{<<b, w, x>> : x \in StoredOf(w)} :
                       <<b, w>> \in BOOLEAN \X ScalarValues}}

OutputCalls ==
    {FCall("filter_output", ScalarField(FALSE, v), d, e) :
        <<v, d, e>> \in
            UNION {{<<w, x, b>> : x \in StoredOf(w)} :
                       <<w, b>> \in ScalarValues \X BOOLEAN}}

PureCalls ==
    PruneCalls \cup FilterCalls \cup CoerceCalls \cup ScalarPruneCalls
        \cup OutputCalls

(***************************************************************************)
(* SpecPure: a field function is called on a bounded input and runs.       *)
(***************************************************************************)
PureStart(calls) ==
    /\ fcall \in calls
    /\ fres = NoResult
    /\ fprev = NoResult

\* field.prune_data(data)
CallPruneData ==
    /\ fcall.op = "prune_data"
    /\ fres.exc = "pending"
    /\ fres' = prune_data(fcall.field, fcall.data)
    /\ UNCHANGED <<fcall, fprev, entityVars, appVars>>

\* field.filter_input(data, error)
CallFilterInput ==
    /\ fcall.op = "filter_input"
    /\ fres.exc = "pending"
    /\ fres' = filter_input(fcall.field, fcall.data, fcall.error)
    /\ UNCHANGED <<fcall, fprev, entityVars, appVars>>

\* field.prune_data(data) once more, on the data the first call left
CallPruneDataAgain ==
    /\ fcall.op = "prune_data"
    /\ fres.exc = "none"
    /\ fprev.exc = "pending"
    /\ fprev' = fres
    /\ fres' = prune_data(fcall.field, fres.data)
    /\ UNCHANGED <<fcall, entityVars, appVars>>

\* field.filter_output(data), the read of a stored scalar
CallFilterOutput ==
    /\ fcall.op = "filter_output"
    /\ fres.exc = "pending"
    /\ fres' = Returned(Field_filter_output(fcall.field, fcall.data),
                        fcall.data)
    /\ UNCHANGED <<fcall, fprev, entityVars, appVars>>

\* field.filter_input(value, error) of the value filter_output returned
CallFilterInputOfOutput ==
    /\ fcall.op = "filter_output"
    /\ fres.exc = "none"
    /\ fprev.exc = "pending"
    /\ fprev' = fres
    /\ fres' = Field_filter_input(fcall.field, fres.ret, fcall.error)
    /\ UNCHANGED <<fcall, entityVars, appVars>>

NextPure ==
    \/ CallPruneData
    \/ CallFilterInput
    \/ CallPruneDataAgain
    \/ CallFilterOutput
    \/ CallFilterInputOfOutput

(***************************************************************************)
(* Properties of the field functions (under SpecPure).                     *)
(***************************************************************************)
PruneDone  == fcall.op = "prune_data" /\ fres.exc # "pending"
FilterDone == fcall.op = "filter_input" /\ fres.exc # "pending"

\* C9: prune_data of a ListField, DictField, CompoundListField or
\* CompoundDictField returns true exactly for an empty container of a
\* field built with store_default=False: false for every non-empty
\* container whatever its elements hold, false for every container when
\* store_default=True.
C9_WholeContainerPruning ==
    (PruneDone /\ fcall.field.cls \in ContainerClasses) =>
        /\ fres.exc = "none"
        /\ fres.ret = (Len(fcall.data.val) = 0 /\ ~fcall.field.store_default)

\* A non-empty compound list whose only element holds nothing but defaults
\* (pruned to an empty document) is not prunable.
C9_Witness ==
    /\ PruneDone
    /\ fcall.field.cls = "CompoundListField"
    /\ ~fcall.field.store_default
    /\ Len(fcall.data.val) = 1
    /\ fcall.data.val[1] # DictV(<<>>)
    /\ fres.data.val[1] = DictV(<<>>)
    /\ fres.ret = FALSE

\* The child validator's filter_input of a dict field's value.
ChildFilterInput(f, val, error) ==
    IF IsCompoundClass(f.cls)
    THEN CompoundValue_filter_input(f.d_value, val, error)
    ELSE TypedValue_filter_input(f.d_value, val, error)

\* C10: with error=False, filter_input of a DictField or CompoundDictField
\* on a mapping returns a mapping whose keys are exactly the input keys of
\* the declared key type, each mapped to the child validator's filter_input
\* of the input value.
C10_DictFilterKeepsValidEntries ==
    ( /\ FilterDone
      /\ fcall.field.cls \in {"DictField", "CompoundDictField"}
      /\ ~fcall.error
      /\ IsInstance(fcall.data, "dict") ) =>
        /\ fres.exc = "none"
        /\ IsInstance(fres.ret, "dict")
        /\ DictKeys(fres.ret) =
               {k \in DictKeys(fcall.data) : IsInstance(k, fcall.field.keytype)}
        /\ \A k \in DictKeys(fres.ret) :
               DictGet(fres.ret, k) =
                   ChildFilterInput(fcall.field, DictGet(fcall.data, k),
                                    FALSE).ret

\* An ill-typed key first and a valid entry after it: only the valid entry
\* is in the result.
C10_Witness ==
    /\ FilterDone
    /\ fcall.field.cls = "DictField"
    /\ ~fcall.error
    /\ IsInstance(fcall.data, "dict")
    /\ Len(fcall.data.val) = 2
    /\ ~IsInstance(fcall.data.val[1][1], "str")
    /\ IsInstance(fcall.data.val[2][1], "str")
    /\ fres.exc = "none"
    /\ fres.ret = DictV(<< fcall.data.val[2] >>)

\* The mapping has an entry whose key is not of the declared key type.
HasBadKey(f, data) ==
    \E i \in 1..Len(data.val) : ~IsInstance(data.val[i][1], f.keytype)

\* C11: with error=True, DictField.filter_input on a mapping that has a key
\* of a type other than the declared key type (at any position, also after
\* valid entries) raises the type-mismatch error, returns no result, and
\* leaves the input mapping with the keys and values it had.
C11_BadKeyRaisesUntouched ==
    ( /\ FilterDone
      /\ fcall.field.cls = "DictField"
      /\ fcall.error
      /\ IsInstance(fcall.data, "dict")
      /\ HasBadKey(fcall.field, fcall.data) ) =>
        /\ fres.exc = "TypeError"
        /\ fres.ret = NoneV
        /\ fres.data = fcall.data

\* A valid entry first and an ill-typed key after it.
C11_Witness ==
    /\ FilterDone
    /\ fcall.field.cls = "DictField"
    /\ fcall.error
    /\ IsInstance(fcall.data, "dict")
    /\ Len(fcall.data.val) = 2
    /\ IsInstance(fcall.data.val[1][1], "str")
    /\ IsInstance(fcall.data.val[1][2], "int")
    /\ ~IsInstance(fcall.data.val[2][1], "str")
    /\ fres.exc = "TypeError"
    /\ fres.data = fcall.data

\* The container kind of a field class, and input of another kind.
ContainerKind(cls) == IF IsListClass(cls) THEN "list" ELSE "dict"
WrongContainerKind ==
    /\ FilterDone
    /\ fcall.field.cls \in ContainerClasses
    /\ ~IsInstance(fcall.data, ContainerKind(fcall.field.cls))

\* C12: filter_input given a value of the wrong container kind (no list for
\* a ListField or CompoundListField, no mapping for a DictField or
\* CompoundDictField) raises TypeError at once with error=True, and with
\* error=False returns an empty container of the field's kind and does not
\* raise.
C12_WrongContainerKind ==
    WrongContainerKind =>
        IF fcall.error
        THEN /\ fres.exc = "TypeError"
             /\ fres.ret = NoneV
             /\ fres.data = fcall.data
        ELSE /\ fres.exc = "none"
             /\ fres.ret = [kind |-> ContainerKind(fcall.field.cls),
                            val |-> <<>>]
             /\ fres.data = fcall.data

\* A compound dict field given a list with error=False answers {}.
C12_Witness ==
    /\ WrongContainerKind
    /\ fcall.field.cls = "CompoundDictField"
    /\ IsInstance(fcall.data, "list")
    /\ ~fcall.error
    /\ fres.exc = "none"
    /\ fres.ret = DictV(<<>>)

\* filter_input of a list field raised with error=True.
ListFilterRaised ==
    /\ FilterDone
    /\ IsListClass(fcall.field.cls)
    /\ fcall.error
    /\ fres.exc # "none"

\* The child validator's outcome for input element i of the call.
ChildOutcome(i) ==
    ChildFilterInput(fcall.field, fcall.data.val[i], fcall.error)

\* C13 as stated: with error=True, whenever filter_input of a ListField or
\* CompoundListField raises, the list passed in holds the same elements
\* after the raise as before, also when the raise comes from the element
\* validator at an index greater than 0.
C13_RaiseLeavesListUntouched ==
    ListFilterRaised => fres.data = fcall.data

\* C13 amended: a raise for a value that is no list leaves the value as it
\* was; a raise of the element validator at index i leaves a list of the
\* same length whose elements before i are the validator's results for
\* them (written in place before the raise) and whose elements after i are
\* as passed in.
C13_RaiseLeavesPrefixFiltered ==
    ListFilterRaised =>
        IF ~IsInstance(fcall.data, "list")
        THEN fres.exc = "TypeError" /\ fres.data = fcall.data
        ELSE /\ Len(fres.data.val) = Len(fcall.data.val)
             /\ \E i \in 1..Len(fcall.data.val) :
                    /\ \A j \in 1..(i - 1) :
                           /\ ChildOutcome(j).exc = "none"
                           /\ fres.data.val[j] = ChildOutcome(j).ret
                    /\ ChildOutcome(i).exc = fres.exc
                    /\ fres.data.val[i] = ChildOutcome(i).data
                    /\ \A j \in (i + 1)..Len(fcall.data.val) :
                           fres.data.val[j] = fcall.data.val[j]

\* A list of floats given [1, "x"]: the raise at index 1 leaves [1.0, "x"].
C13_Witness ==
    /\ ListFilterRaised
    /\ fcall.field = RatiosField
    /\ fcall.data = ListV(<<IntV(1), StrV(3)>>)
    /\ fres.exc = "TypeError"
    /\ fres.data = ListV(<<FloatV(1), StrV(3)>>)

\* C14: for a list input none of whose elements makes the child validator
\* raise, filter_input of a ListField or CompoundListField returns, with
\* either error flag, a list of the same length whose element i is the
\* child validator's filter_input of input element i.
C14_ListFilterElementwise ==
    ( /\ FilterDone
      /\ IsListClass(fcall.field.cls)
      /\ IsInstance(fcall.data, "list")
      /\ \A i \in 1..Len(fcall.data.val) : ChildOutcome(i).exc = "none" ) =>
        /\ fres.exc = "none"
        /\ IsInstance(fres.ret, "list")
        /\ Len(fres.ret.val) = Len(fcall.data.val)
        /\ \A i \in 1..Len(fcall.data.val) :
               fres.ret.val[i] = ChildOutcome(i).ret

\* A list of floats given [1, "x"] with error=False: the integer coerced,
\* the string replaced by the default, two elements as before.
C14_Witness ==
    /\ FilterDone
    /\ fcall.field = RatiosField
    /\ ~fcall.error
    /\ fcall.data = ListV(<<IntV(1), StrV(3)>>)
    /\ fres.exc = "none"
    /\ fres.ret = ListV(<<FloatV(1), FloatV(0)>>)

\* A document that is another one with some of its fields taken out.
PrunedFrom(out, in) ==
    /\ IsInstance(out, "dict")
    /\ DictKeys(out) \subseteq DictKeys(in)
    /\ \A k \in DictKeys(out) : DictGet(out, k) = DictGet(in, k)

\* C15: prune_data of a container removes, adds and reorders no element: a
\* ListField's or DictField's data is as it was; a CompoundListField's list
\* has the same length and order (each element the pruned document of the
\* element that stood there); a CompoundDictField's mapping has the same
\* key set.
C15_PruneKeepsElements ==
    (PruneDone /\ fcall.field.cls \in ContainerClasses) =>
        CASE fcall.field.cls \in {"ListField", "DictField"} ->
                 fres.data = fcall.data
          [] fcall.field.cls = "CompoundListField" ->
                 /\ IsInstance(fres.data, "list")
                 /\ Len(fres.data.val) = Len(fcall.data.val)
                 /\ \A i \in 1..Len(fcall.data.val) :
                        PrunedFrom(fres.data.val[i], fcall.data.val[i])
          [] fcall.field.cls = "CompoundDictField" ->
                 /\ IsInstance(fres.data, "dict")
                 /\ Len(fres.data.val) = Len(fcall.data.val)
                 /\ DictKeys(fres.data) = DictKeys(fcall.data)
                 /\ \A k \in DictKeys(fcall.data) :
                        PrunedFrom(DictGet(fres.data, k),
                                   DictGet(fcall.data, k))

\* A compound list of an all-default car and another car: the first is
\* pruned to an empty document and stays first, the second is as it was.
C15_Witness ==
    /\ PruneDone
    /\ fcall.field.cls = "CompoundListField"
    /\ Len(fcall.data.val) = 2
    /\ fcall.data.val[1] # DictV(<<>>)
    /\ fres.data.val[1] = DictV(<<>>)
    /\ fres.data.val[2] = fcall.data.val[2]
    /\ fres.data.val[2] # DictV(<<>>)

\* prune_data has run a second time, on the slice the first run left.
PrunedTwice == fcall.op = "prune_data" /\ fprev.exc # "pending"

C19_FieldFlagDecidesPruning ==
    (PruneDone /\ fcall.field.cls = "Field") =>
        /\ fres.exc = "none"
        /\ fres.ret = ( /\ ~fcall.field.store_default
                        /\ fcall.data = Field_get_default_data(fcall.field) )

\* A Field built with store_default=True over a value built without it
\* reports its default prunable.
C19_Witness ==
    /\ PruneDone
    /\ fcall.field.cls = "Field"
    /\ fcall.field.store_default
    /\ ~fcall.field.d_value.store_default
    /\ fcall.data = Field_get_default_data(fcall.field)
    /\ fres.ret = TRUE

\* filter_input has run on the value filter_output returned.
RoundTripDone == fcall.op = "filter_output" /\ fprev.exc # "pending"

RefV(a)  == [kind |-> "ref", val |-> a]
IsRef(v) == v.kind = "ref"
NoAddr   == 0

\* The values an object holds, in order, and the object with them replaced.
ObjVals(o) ==
    IF o.kind = "dict" THEN [i \in 1..Len(o.val) |-> o.val[i][2]] ELSE o.val
ObjWithVals(o, vals) ==
    IF o.kind = "dict"
    THEN DictV([i \in 1..Len(o.val) |-> <<o.val[i][1], vals[i]>>])
    ELSE ListV(vals)

\* The addresses an object refers to directly.
Refs(o) == {ObjVals(o)[i].val : i \in {j \in 1..Len(ObjVals(o)) :
                                           IsRef(ObjVals(o)[j])}}

\* Every address reachable from address a, a included.
RECURSIVE ReachFrom(_, _, _)
ReachFrom(h, frontier, seen) ==
    IF frontier = {} THEN seen
    ELSE LET next == (UNION {Refs(h[a]) : a \in frontier}) \ seen
         IN  ReachFrom(h, next, seen \cup next)
Reach(h, a) == ReachFrom(h, {a}, {a})

\* The document value at address a: the object with every reference
\* replaced by the value it leads to.
RECURSIVE Tree(_, _)
Tree(h, a) ==
    LET o == h[a]
        vals == ObjVals(o)
    IN  ObjWithVals(o, [i \in 1..Len(vals) |->
                            IF IsRef(vals[i]) THEN Tree(h, vals[i].val)
                            ELSE vals[i]])

\* copy.deepcopy(data) for the object at address a: a new object for it
\* and for every object below it.  Gives the heap with the copies and the
\* address of the copy.  (The documents copied here are trees, so the memo
\* of deepcopy never finds an object twice.)
RECURSIVE deepcopy(_, _)
RECURSIVE deepcopy_vals(_, _, _)
deepcopy_vals(h, vals, i) ==
    IF i > Len(vals) THEN [heap |-> h, vals |-> vals]
    ELSE IF IsRef(vals[i])
         THEN LET c == deepcopy(h, vals[i].val)
              IN  deepcopy_vals(c.heap, [vals EXCEPT ![i] = RefV(c.addr)],
                                i + 1)
         ELSE deepcopy_vals(h, vals, i + 1)
deepcopy(h, a) ==
    LET c == deepcopy_vals(h, ObjVals(h[a]), 1)
    IN  [heap |-> Append(c.heap, ObjWithVals(h[a], c.vals)),
         addr |-> Len(c.heap) + 1]

\* A copy of the top object only, sharing everything below it
\* (copy.copy in place of copy.deepcopy).
shallowcopy(h, a) ==
    [heap |-> Append(h, h[a]), addr |-> Len(h) + 1]

(***************************************************************************)
(* The entity of the model.  Its schema objects are CompoundValue          *)
(* instances, told apart by name: Vehicle holds the color field, Car adds  *)
(* wheels to it (the same color descriptor), and there are several Car     *)
(* schema objects with the very same fields: one per field of the root     *)
(* entity, one for a Car entity and one for a free-standing Car() value.   *)
(***************************************************************************)
K_veh   == StrV(5)
K_car   == StrV(6)
K_cars  == StrV(7)
K_cars2 == StrV(8)
K_cmap  == StrV(9)

VehicleFields == <<ColorField>>

SchemaIds == {"VehA", "CarA", "CarB", "CarC", "CarD", "CarEnt", "CarT"}

Schema(id) ==
    CompoundValue(id, IF id = "VehA" THEN VehicleFields ELSE CarFields)

\* The fields of the root entity.
VehField   == Descriptor("CompoundField", K_veh, FALSE, "none", Schema("VehA"))
CarField   == Descriptor("CompoundField", K_car, FALSE, "none", Schema("CarA"))
CarsField  == Descriptor("CompoundListField", K_cars, FALSE, "none",
                         Schema("CarB"))
Cars2Field == Descriptor("CompoundListField", K_cars2, FALSE, "none",
                         Schema("CarC"))
CMapField  == Descriptor("CompoundDictField", K_cmap, FALSE, "str",
                         Schema("CarD"))

CompoundFields     == {VehField, CarField}
CompoundListFields == {CarsField, Cars2Field}
CompoundDictFields == {CMapField}

\* The root documents: of the entity (obj.d_data) and of the Car entity.
RootAddr   == 1
CarEntAddr == 14

InitHeap ==
    << DictV(<< <<K_veh, RefV(2)>>, <<K_car, RefV(3)>>, <<K_cars, RefV(5)>>,
                <<K_cars2, RefV(8)>>, <<K_cmap, RefV(11)>> >>),
       DictV(<< <<K_color, IntV(0)>> >>),
       DictV(<< <<K_color, IntV(0)>>, <<K_wheels, RefV(4)>> >>),
       ListV(<<>>),
       ListV(<< RefV(6) >>),
       DictV(<< <<K_color, IntV(1)>>, <<K_wheels, RefV(7)>> >>),
       ListV(<< IntV(1) >>),
       ListV(<< RefV(9) >>),
       DictV(<< <<K_color, IntV(0)>>, <<K_wheels, RefV(10)>> >>),
       ListV(<<>>),
       DictV(<< <<K_a, RefV(12)>> >>),
       DictV(<< <<K_color, IntV(1)>>, <<K_wheels, RefV(13)>> >>),
       ListV(<<>>),
       DictV(<< <<K_color, IntV(0)>>, <<K_wheels, RefV(15)>> >>),
       ListV(<<>>) >>

(***************************************************************************)
(* Python objects handed to an assignment.  A BoundCompoundValue pairs a   *)
(* schema object (d_value) with the document slice it is bound to          *)
(* (d_data).  A CompoundValue is a schema object itself: "d_value" names   *)
(* it here; it has a d_data when it is an entity and none (NoAddr) when    *)
(* it is a free-standing value.                                            *)
(***************************************************************************)
BoundCompoundValue(d_value, d_data) ==
    [type |-> "BoundCompoundValue", d_value |-> d_value, d_data |-> d_data]
CompoundValueObj(id, d_data) ==
    [type |-> "CompoundValue", d_value |-> id, d_data |-> d_data]
IntObj == [type |-> "int", d_value |-> "none", d_data |-> NoAddr]

\* The slice of the root document under a field's key.
SliceAddr(h, f) == DictGet(h[RootAddr], f.d_key).val

\* CompoundField.__get__(obj): the bound view of the field's slice.
CompoundField_get(h, f) == BoundCompoundValue(f.d_value.id, SliceAddr(h, f))

\* CompoundListField.__get__(obj)[i]: the bound view of element i.
CompoundListField_get_item(h, f, i) ==
    BoundCompoundValue(f.d_value.id, h[SliceAddr(h, f)].val[i].val)

\* CompoundDictField.__get__(obj)[key]: the bound view of the value at key.
CompoundDictField_get_item(h, f, key) ==
    BoundCompoundValue(f.d_value.id, DictGet(h[SliceAddr(h, f)], key).val)

\* Every bound view the entity hands out in this state.
Views(h) ==
    {CompoundField_get(h, f) : f \in CompoundFields}
    \cup UNION {{CompoundListField_get_item(h, f, i) :
                     i \in 1..Len(h[SliceAddr(h, f)].val)} :
                f \in CompoundListFields}
    \cup UNION {{CompoundDictField_get_item(h, f, k) :
                     k \in DictKeys(h[SliceAddr(h, f)])} :
                f \in CompoundDictFields}

(***************************************************************************)
(* Whole-value assignment.                                                 *)
(***************************************************************************)
\* Lines 130-136: the value is a BoundCompoundValue or a CompoundValue.
CompoundField_set_type_ok(value) ==
    value.type \in {"BoundCompoundValue", "CompoundValue"}

\* Line 137: getattr(value, 'd_data', None)
CompoundField_set_data(value) == value.d_data

\* A variant that lets a value through when the field's descriptors are
\* among the value's (a subset test in place of equality).
CompoundField_fields_subset(f, value) ==
    LET mine   == CompoundValue_get_fields(f.d_value)
        theirs == CompoundValue_get_fields(Schema(value.d_value))
    IN  \A i \in 1..Len(mine) : \E j \in 1..Len(theirs) : mine[i] = theirs[j]

\* Line 140: self.d_value.get_fields() != value1.get_fields(), negated.
CompoundField_fields_match(f, value) ==
    CompoundValue_get_fields(f.d_value)
        = CompoundValue_get_fields(Schema(value.d_value))

\* A variant that looks at the field sets before it looks for the value's
\* document.
CompoundField_set_excs_fields_first(f, value) ==
    IF ~CompoundField_set_type_ok(value) THEN {"ValueError"}
    ELSE IF ~CompoundField_fields_match(f, value)
         THEN IF value.type = "BoundCompoundValue" THEN {"ValueError"}
              ELSE {"ValueError", "AttributeError"}
    ELSE IF CompoundField_set_data(value) = NoAddr THEN {"ValueError"}
    ELSE {"none"}

\* The exceptions CompoundField.__set__(obj, value) can end with; "none"
\* when it goes through.  The message of the field mismatch reads
\* value.d_value, which a bound value has; whether a plain CompoundValue
\* has it is not decided here, so for that one the raise is the intended
\* ValueError or the AttributeError of the failed read.
CompoundField_set_excs(f, value) ==
    IF ~CompoundField_set_type_ok(value) THEN {"ValueError"}
    ELSE IF CompoundField_set_data(value) = NoAddr THEN {"ValueError"}
    ELSE IF ~CompoundField_fields_match(f, value)
         THEN IF value.type = "BoundCompoundValue" THEN {"ValueError"}
              ELSE {"ValueError", "AttributeError"}
    ELSE {"none"}

\* A variant that copies the top object only (copy.copy).
CompoundField_copy_shallow(h, a) == shallowcopy(h, a)

\* Line 148: copy.deepcopy(data)
CompoundField_copy(h, a) == deepcopy(h, a)

\* obj.d_data[self.d_key] = <the object at addr>
StoreSlice(h, f, addr) ==
    [h EXCEPT ![RootAddr] = DictSet(@, f.d_key, RefV(addr))]

\* The heap after a CompoundField.__set__ that went through.
CompoundField_set_heap(h, f, value) ==
    LET c == CompoundField_copy(h, CompoundField_set_data(value))
    IN  StoreSlice(c.heap, f, c.addr)

\* Arguments of an assignment: one object, a list or a dict of objects.
ObjArg(o)  == [kind |-> "obj",  val |-> o]
ListArg(s) == [kind |-> "list", val |-> s]
DictArg(s) == [kind |-> "dict", val |-> s]
ArgVals(v) ==
    IF v.kind = "dict" THEN [i \in 1..Len(v.val) |-> v.val[i][2]] ELSE v.val
ArgKeys(v) == [i \in 1..Len(v.val) |-> v.val[i][1]]

\* A variant that takes any bound value whose schema has the field's
\* fields (equality of the schemas in place of identity).
CompoundListField_is_child_structural(f, i) ==
    CompoundValue_get_fields(Schema(i.d_value))
        = CompoundValue_get_fields(f.d_value)

\* Line 344: i.d_value is self.d_value
CompoundListField_is_child(f, i) == i.d_value = f.d_value.id

\* A variant that reports a value that is no list as a value mismatch.
CompoundListField_set_exc_mismatch(f, value) ==
    IF value.kind # "list" THEN "ValueError"
    ELSE IF \/ ~(\A n \in 1..Len(value.val) :
                    value.val[n].type = "BoundCompoundValue")
            \/ ~(\A n \in 1..Len(value.val) :
                    CompoundListField_is_child(f, value.val[n]))
         THEN "ValueError"
    ELSE "none"

\* CompoundListField.__set__: the exception it ends with, "none" if none.
CompoundListField_set_exc(f, value) ==
    IF value.kind # "list" THEN "TypeError"
    ELSE IF \/ ~(\A n \in 1..Len(value.val) :
                    value.val[n].type = "BoundCompoundValue")
            \/ ~(\A n \in 1..Len(value.val) :
                    CompoundListField_is_child(f, value.val[n]))
         THEN "ValueError"
    ELSE "none"

\* A variant that stores copies of the elements' slices (as
\* CompoundField.__set__ does with its one slice).
CompoundListField_set_heap_copy(h, f, value) ==
    LET c == deepcopy(Append(h, ListV([n \in 1..Len(value.val) |->
                                           RefV(value.val[n].d_data)])),
                      Len(h) + 1)
    IN  StoreSlice(c.heap, f, c.addr)

\* Line 347: obj.d_data[self.d_key] = [i.d_data for i in value]
CompoundListField_set_heap(h, f, value) ==
    StoreSlice(
        Append(h, ListV([n \in 1..Len(value.val) |->
                             RefV(value.val[n].d_data)])),
        f, Len(h) + 1)

\* A variant that takes any bound value whose schema has the field's
\* fields (equality of the schemas in place of identity).
CompoundDictField_is_child_structural(f, i) ==
    CompoundValue_get_fields(Schema(i.d_value))
        = CompoundValue_get_fields(f.d_value)

\* Line 444: i.d_value is self.d_value
CompoundDictField_is_child(f, i) == i.d_value = f.d_value.id

\* A variant without the key-type test of line 440.
CompoundDictField_key_ok_any(f, key) == TRUE

\* Line 440: isinstance(i, self.d_keytype)
CompoundDictField_key_ok(f, key) == IsInstance(key, f.keytype)

\* CompoundDictField.__set__: the exception it ends with, "none" if none.
CompoundDictField_set_exc(f, value) ==
    IF value.kind # "dict" THEN "TypeError"
    ELSE IF \/ ~(\A n \in 1..Len(value.val) :
                    CompoundDictField_key_ok(f, ArgKeys(value)[n]))
            \/ ~(\A n \in 1..Len(value.val) :
                    ArgVals(value)[n].type = "BoundCompoundValue")
            \/ ~(\A n \in 1..Len(value.val) :
                    CompoundDictField_is_child(f, ArgVals(value)[n]))
         THEN "ValueError"
    ELSE "none"

\* Lines 448-451: obj.d_data[self.d_key] = {key: val.d_data for ...}
CompoundDictField_set_heap(h, f, value) ==
    StoreSlice(
        Append(h, DictV([n \in 1..Len(value.val) |->
                             <<ArgKeys(value)[n],
                               RefV(ArgVals(value)[n].d_data)>>])),
        f, Len(h) + 1)

(***************************************************************************)
(* SpecEntity: assignments to the compound fields of the entity and        *)
(* mutations through bound views, over the heap.                           *)
(***************************************************************************)
\* The bound children of a compound list / dict field.
Children(h, f) ==
    IF f.cls = "CompoundListField"
    THEN {CompoundListField_get_item(h, f, i) :
              i \in 1..Len(h[SliceAddr(h, f)].val)}
    ELSE {CompoundDictField_get_item(h, f, k) :
              k \in DictKeys(h[SliceAddr(h, f)])}

\* Objects a caller hands to a CompoundField: the bound views of the
\* compound fields and of the children of the first list field, a
\* free-standing Car() value, the Car entity, and an integer.
AssignObjs(h) ==
    {CompoundField_get(h, f) : f \in CompoundFields}
    \cup Children(h, CarsField)
    \cup {CompoundValueObj("CarT", NoAddr),
          CompoundValueObj("CarEnt", CarEntAddr), IntObj}

\* Elements of a list or dict handed to compound list / dict field f: its
\* own bound children, the children of the unrelated second list field,
\* and an integer.
ElemObjs(h, f) ==
    Children(h, f) \cup Children(h, Cars2Field) \cup {IntObj}

\* The list field assigned to (the other one gives unrelated children).
AssignedListFields == {CarsField}

AssignKeys == {K_a, IntV(1)}

ListArgs(h, f) ==
    {ListArg(s) : s \in SeqsUpTo(ElemObjs(h, f), MaxAssignLen)}
    \cup {ObjArg(IntObj), DictArg(<<>>)}

DictArgs(h, f) ==
    {DictArg(s) : s \in {t \in SeqsUpTo(AssignKeys \X ElemObjs(h, f),
                                        MaxAssignLen) :
                            \A i, j \in 1..Len(t) : i # j => t[i][1] # t[j][1]}}
    \cup {ObjArg(IntObj), ListArg(<<>>)}

\* A bound view taken by attribute access: the descriptor, the document of
\* the object it was read on (obj.d_data), and the slice the view refers
\* to.  "stale" notes that the field was assigned as a whole on that object
\* after the view was taken.
BoundView(obj, f, d_data) ==
    [obj |-> obj, field |-> f, d_data |-> d_data, stale |-> FALSE]

\* A variant whose accessor binds the view to a copy of the slice.
Field_get_copy(h, obj, f) ==
    LET c == deepcopy(h, DictGet(h[obj], f.d_key).val)
    IN  [heap |-> c.heap, view |-> BoundView(obj, f, c.addr)]

\* <field>.__get__(obj) of CompoundField, ListField, DictField,
\* CompoundListField and CompoundDictField: a new bound view of
\* obj.d_data[self.d_key]; the document is left as it is.
Field_get(h, obj, f) ==
    [heap |-> h, view |-> BoundView(obj, f, DictGet(h[obj], f.d_key).val)]

\* The attribute accesses of the model: three fields of the root entity
\* and the wheels list of the Car entity.
ViewTargets ==
    {<<RootAddr, CarField>>, <<RootAddr, CarsField>>, <<RootAddr, CMapField>>,
     <<CarEntAddr, WheelsField>>}

\* The views after obj.<field> = value on the root entity ended with exc.
Rebound(vs, f, exc) ==
    IF exc # "none" THEN vs
    ELSE [i \in 1..Len(vs) |->
              IF vs[i].obj = RootAddr /\ vs[i].field = f
              THEN [vs[i] EXCEPT !.stale = TRUE] ELSE vs[i]]

\* The documents a compound view, or a view of a compound list or dict,
\* gives attribute access to: the slice itself, or its elements.
ViewDocs(h, v) ==
    CASE v.field.cls = "CompoundField" -> {v.d_data}
      [] v.field.cls \in {"CompoundListField", "CompoundDictField"} ->
             {ObjVals(h[v.d_data])[i].val :
                  i \in 1..Len(ObjVals(h[v.d_data]))}
      [] OTHER -> {}

Last(op, f, value, exc, wrote, addr) ==
    [op |-> op, field |-> f, value |-> value, exc |-> exc,
     wrote |-> wrote, addr |-> addr]

NoIso == [src |-> NoAddr, dst |-> NoAddr]

EntityStart ==
    /\ heap = InitHeap
    /\ last = Last("none", VehField, ObjArg(IntObj), "none", FALSE, NoAddr)
    /\ iso = NoIso
    /\ held = {}
    /\ views = <<>>
    /\ nops = 0

\* obj.<field> = value for a CompoundField (CompoundField.__set__)
SetCompoundField ==
    /\ nops < MaxOps
    /\ \E f \in CompoundFields, value \in AssignObjs(heap) :
         \E exc \in CompoundField_set_excs(f, value) :
           LET h2 == IF exc = "none"
                     THEN CompoundField_set_heap(heap, f, value) ELSE heap
           IN  /\ heap' = h2
               /\ iso' = IF exc = "none"
                         THEN [src |-> value.d_data, dst |-> SliceAddr(h2, f)]
                         ELSE iso
               /\ held' = IF exc = "none"
                          THEN held \cup {value.d_data, SliceAddr(h2, f)}
                          ELSE held
               /\ views' = Rebound(views, f, exc)
               /\ last' = Last("CompoundField", f, ObjArg(value), exc,
                               h2 # heap,
                               IF exc = "none" THEN SliceAddr(h2, f)
                               ELSE NoAddr)
    /\ nops' = nops + 1
    /\ UNCHANGED <<pureVars, appVars>>

\* obj.<field> = value for a CompoundListField (CompoundListField.__set__)
SetCompoundListField ==
    /\ nops < MaxOps
    /\ \E f \in AssignedListFields :
       \E value \in ListArgs(heap, f) :
         LET exc == CompoundListField_set_exc(f, value)
             h2  == IF exc = "none"
                    THEN CompoundListField_set_heap(heap, f, value) ELSE heap
         IN  /\ heap' = h2
             /\ held' = IF exc = "none"
                        THEN held \cup {value.val[n].d_data :
                                           n \in 1..Len(value.val)}
                        ELSE held
             /\ views' = Rebound(views, f, exc)
             /\ last' = Last("CompoundListField", f, value, exc, h2 # heap,
                             IF exc = "none" THEN SliceAddr(h2, f) ELSE NoAddr)
    /\ nops' = nops + 1
    /\ UNCHANGED <<pureVars, appVars>>
    /\ UNCHANGED iso

\* obj.<field> = value for a CompoundDictField (CompoundDictField.__set__)
SetCompoundDictField ==
    /\ nops < MaxOps
    /\ \E f \in CompoundDictFields :
       \E value \in DictArgs(heap, f) :
         LET exc == CompoundDictField_set_exc(f, value)
             h2  == IF exc = "none"
                    THEN CompoundDictField_set_heap(heap, f, value) ELSE heap
         IN  /\ heap' = h2
             /\ held' = IF exc = "none"
                        THEN held \cup {ArgVals(value)[n].d_data :
                                           n \in 1..Len(value.val)}
                        ELSE held
             /\ views' = Rebound(views, f, exc)
             /\ last' = Last("CompoundDictField", f, value, exc, h2 # heap,
                             IF exc = "none" THEN SliceAddr(h2, f) ELSE NoAddr)
    /\ nops' = nops + 1
    /\ UNCHANGED <<pureVars, appVars>>
    /\ UNCHANGED iso

\* The caller keeps the bound views an assignment involved: of the slices
\* it assigned from and of the slice a CompoundField copy made ("held"; a
\* view outlives the document it was taken from).  Mutations go through
\* these views.

\* view.color = v through a bound view of the slice at address a
\* (the view writes the filtered value into its slice)
SetColor ==
    /\ nops < MaxOps
    /\ \E a \in held, v \in StoredScalars :
         /\ DictGet(heap[a], K_color) # v
         /\ heap' = [heap EXCEPT ![a] = DictSet(@, K_color, v)]
         /\ last' = Last("setattr", ColorField,
                         ObjArg(BoundCompoundValue("none", a)), "none",
                         TRUE, a)
    /\ nops' = nops + 1
    /\ UNCHANGED <<pureVars, appVars>>
    /\ UNCHANGED <<iso, held, views>>

\* view.wheels.append(1) through a bound view of the slice at address a
\* (the bound list appends the filtered value to its list)
AppendWheel ==
    /\ nops < MaxOps
    /\ \E a \in held :
         /\ DictHas(heap[a], K_wheels)
         /\ LET w == DictGet(heap[a], K_wheels).val IN
              /\ Len(heap[w].val) < MaxWheels
              /\ heap' = [heap EXCEPT ![w] = ListV(Append(@.val, IntV(1)))]
         /\ last' = Last("append", WheelsField,
                         ObjArg(BoundCompoundValue("none", a)), "none",
                         TRUE, a)
    /\ nops' = nops + 1
    /\ UNCHANGED <<pureVars, appVars>>
    /\ UNCHANGED <<iso, held, views>>

\* obj.<field>, read twice at most; the second read is of the field the
\* first read was of.
GetView ==
    /\ nops < MaxOps
    /\ Len(views) < 2
    /\ \E t \in ViewTargets :
         /\ views # <<>> => (t[1] = views[1].obj /\ t[2] = views[1].field)
         /\ LET r == Field_get(heap, t[1], t[2]) IN
              /\ heap' = r.heap
              /\ views' = Append(views, r.view)
              /\ last' = Last("get", t[2], ObjArg(IntObj), "none", FALSE,
                              r.view.d_data)
    /\ nops' = nops + 1
    /\ UNCHANGED <<pureVars, appVars>>
    /\ UNCHANGED <<iso, held>>

\* A mutation through the first view taken: view.color = v for a compound
\* view, view[i].color = v or view[key].color = v for a view of a compound
\* list or dict, view.append(1) for a list view.
MutateThroughView ==
    /\ nops < MaxOps
    /\ views # <<>>
    /\ LET view == views[1] IN
         \/ \E a \in ViewDocs(heap, view), v \in StoredScalars :
              /\ DictGet(heap[a], K_color) # v
              /\ heap' = [heap EXCEPT ![a] = DictSet(@, K_color, v)]
              /\ last' = Last("setattr", ColorField,
                              ObjArg(BoundCompoundValue("none", a)), "none",
                              TRUE, a)
         \/ /\ view.field.cls = "ListField"
            /\ Len(heap[view.d_data].val) < MaxWheels
            /\ heap' = [heap EXCEPT ![view.d_data] =
                                        ListV(Append(@.val, IntV(1)))]
            /\ last' = Last("append", WheelsField,
                            ObjArg(BoundCompoundValue("none", view.obj)),
                            "none", TRUE, view.obj)
    /\ nops' = nops + 1
    /\ UNCHANGED <<pureVars, appVars>>
    /\ UNCHANGED <<iso, held, views>>

\* The list or dict object a caller builds and then assigns: a container
\* of bound views, each view standing for the slice it is bound to.
GivenContainer(value) ==
    IF value.kind = "list"
    THEN ListV([n \in 1..Len(value.val) |-> RefV(value.val[n].d_data)])
    ELSE DictV([n \in 1..Len(value.val) |->
                   <<ArgKeys(value)[n], RefV(ArgVals(value)[n].d_data)>>])

\* What an assignment of a kept container leaves for later steps: the
\* caller's container, the container stored, the views' slices.
Kept(src, dst, value) ==
    [src |-> src, dst |-> dst,
     elems |-> {ArgVals(value)[n].d_data : n \in 1..Len(value.val)}]

\* lst = [views]; obj.<field> = lst for a CompoundListField, the caller
\* keeping lst (CompoundListField.__set__)
AssignGivenList ==
    /\ nops < MaxOps
    /\ \E f \in AssignedListFields :
       \E s \in SeqsUpTo(Children(heap, f) \cup Children(heap, Cars2Field),
                         MaxAssignLen) :
         LET value == ListArg(s)
             h1  == Append(heap, GivenContainer(value))
             exc == CompoundListField_set_exc(f, value)
             h2  == IF exc = "none"
                    THEN CompoundListField_set_heap(h1, f, value) ELSE h1
         IN  /\ heap' = h2
             /\ iso' = IF exc = "none"
                       THEN Kept(Len(heap) + 1, SliceAddr(h2, f), value)
                       ELSE iso
             /\ held' = IF exc = "none"
                        THEN held \cup {value.val[n].d_data :
                                           n \in 1..Len(value.val)}
                        ELSE held
             /\ views' = Rebound(views, f, exc)
             /\ last' = Last("CompoundListField", f, value, exc, exc = "none",
                             IF exc = "none" THEN SliceAddr(h2, f) ELSE NoAddr)
    /\ nops' = nops + 1
    /\ UNCHANGED <<pureVars, appVars>>

\* dct = {key: view}; obj.<field> = dct for a CompoundDictField, the
\* caller keeping dct (CompoundDictField.__set__)
AssignGivenDict ==
    /\ nops < MaxOps
    /\ \E f \in CompoundDictFields :
       \E s \in {t \in SeqsUpTo(AssignKeys \X Children(heap, f), MaxAssignLen) :
                    \A i, j \in 1..Len(t) : i # j => t[i][1] # t[j][1]} :
         LET value == DictArg(s)
             h1  == Append(heap, GivenContainer(value))
             exc == CompoundDictField_set_exc(f, value)
             h2  == IF exc = "none"
                    THEN CompoundDictField_set_heap(h1, f, value) ELSE h1
         IN  /\ heap' = h2
             /\ iso' = IF exc = "none"
                       THEN Kept(Len(heap) + 1, SliceAddr(h2, f), value)
                       ELSE iso
             /\ held' = IF exc = "none"
                        THEN held \cup {ArgVals(value)[n].d_data :
                                           n \in 1..Len(value.val)}
                        ELSE held
             /\ views' = Rebound(views, f, exc)
             /\ last' = Last("CompoundDictField", f, value, exc, exc = "none",
                             IF exc = "none" THEN SliceAddr(h2, f) ELSE NoAddr)
    /\ nops' = nops + 1
    /\ UNCHANGED <<pureVars, appVars>>

\* The caller removes the last element of the container it assigned, or
\* adds one more view to it (lst.pop(), lst.append(view), del dct[key],
\* dct[key] = view).
MutateGiven ==
    /\ nops < MaxOps
    /\ iso.dst # NoAddr
    /\ \/ /\ heap[iso.src].val # <<>>
          /\ heap' = [heap EXCEPT ![iso.src].val = SubSeq(@, 1, Len(@) - 1)]
       \/ \E a \in held :
            /\ heap[iso.src].kind = "list"
            /\ heap' = [heap EXCEPT ![iso.src].val = Append(@, RefV(a))]
       \/ \E a \in held :
            /\ heap[iso.src].kind = "dict"
            /\ ~DictHas(heap[iso.src], K_b)
            /\ heap' = [heap EXCEPT ![iso.src] = DictSet(@, K_b, RefV(a))]
    /\ last' = Last("given", last.field, ObjArg(IntObj), "none", TRUE, iso.src)
    /\ nops' = nops + 1
    /\ UNCHANGED <<pureVars, appVars>>
    /\ UNCHANGED <<iso, held, views>>

NextShare ==
    \/ AssignGivenList
    \/ AssignGivenDict
    \/ SetColor
    \/ MutateGiven

NextEntity ==
    \/ SetCompoundField
    \/ SetCompoundListField
    \/ SetCompoundDictField
    \/ SetColor
    \/ AppendWheel
    \/ GetView
    \/ MutateThroughView

(***************************************************************************)
(* Properties of assignment (under SpecEntity).                            *)
(***************************************************************************)
FieldSet(cv) == {cv.fields[i] : i \in 1..Len(cv.fields)}

\* The latest operation was an assignment to a field of the class.
Assigned(cls) == last.op = cls
\* The object it was given (CompoundField), or its list / dict of objects.
Given == last.value.val
IsBound(o) == o.type = "BoundCompoundValue"
SameFields(o, f) ==
    /\ FieldSet(Schema(o.d_value)) = FieldSet(f.d_value)
    /\ Len(Schema(o.d_value).fields) = Len(f.d_value.fields)

\* C1: assigning a bound compound value A to a CompoundField B goes
\* through exactly when the field set of A's schema equals the field set
\* of B's nested schema; a failed assignment (a strict superset of fields
\* among them) raises and does not write the document.
C1_StructuralEqualityGate ==
    (Assigned("CompoundField") /\ IsBound(Given)) =>
        /\ (last.exc = "none") <=> SameFields(Given, last.field)
        /\ last.exc # "none" => (last.exc = "ValueError" /\ ~last.wrote)
        /\ last.exc = "none" =>
               (last.wrote /\ SliceAddr(heap, last.field) = last.addr)

\* A bound Car value (color and wheels) given to the Vehicle field (color
\* only) was refused.
C1_Witness ==
    /\ Assigned("CompoundField")
    /\ IsBound(Given)
    /\ last.field = VehField
    /\ FieldSet(Schema(Given.d_value)) \ FieldSet(VehField.d_value) # {}
    /\ FieldSet(VehField.d_value) \subseteq FieldSet(Schema(Given.d_value))
    /\ last.exc = "ValueError"
    /\ ~last.wrote

\* A step that is a CompoundField assignment going through, and a step
\* that is a mutation through a held view.
CopyStep ==
    /\ nops' = nops + 1
    /\ last'.op = "CompoundField"
    /\ last'.exc = "none"
MutationStep ==
    /\ nops' = nops + 1
    /\ last'.op \in {"setattr", "append"}

\* C2: a CompoundField assignment that goes through stores a deep copy of
\* the source slice under the field's key: the new slice holds the same
\* data as the source and shares no object with it, and afterwards no
\* mutation changes both the source slice and the target slice (a mutation
\* of the source leaves the target as it was, and the other way round).
C2_DeepCopyIsolation ==
    [][ /\ CopyStep =>
             /\ SliceAddr(heap', last'.field) = iso'.dst
             /\ Tree(heap', iso'.dst) = Tree(heap, iso'.src)
             /\ Tree(heap', iso'.src) = Tree(heap, iso'.src)
             /\ Reach(heap', iso'.dst) \cap Reach(heap', iso'.src) = {}
        /\ (MutationStep /\ iso.dst # NoAddr) =>
             \/ Tree(heap', iso.src) = Tree(heap, iso.src)
             \/ Tree(heap', iso.dst) = Tree(heap, iso.dst)
      ]_vars

\* After a copy, a wheel was appended through the view of the source
\* slice: the source now differs from the copy.
C2_Witness ==
    /\ iso.dst # NoAddr
    /\ last.op = "append"
    /\ last.addr = iso.src
    /\ Tree(heap, iso.src) # Tree(heap, iso.dst)
    /\ Tree(heap, iso.dst).val # <<>>

\* The latest operation was a whole-value assignment.
AssignedAny ==
    last.op \in {"CompoundField", "CompoundListField", "CompoundDictField"}

\* The value given is of the container kind the assigned field takes.
RightContainer ==
    \/ Assigned("CompoundListField") /\ last.value.kind = "list"
    \/ Assigned("CompoundDictField") /\ last.value.kind = "dict"

\* The reasons an assignment is refused for.
WrongObjectType ==
    /\ Assigned("CompoundField")
    /\ Given.type \notin {"BoundCompoundValue", "CompoundValue"}
UnboundObject ==
    /\ Assigned("CompoundField") /\ ~WrongObjectType
    /\ Given.d_data = NoAddr
MismatchedFieldSet ==
    /\ Assigned("CompoundField") /\ ~WrongObjectType /\ ~UnboundObject
    /\ ~SameFields(Given, last.field)
NotTheContainer ==
    /\ last.op \in {"CompoundListField", "CompoundDictField"}
    /\ ~RightContainer
\* An element that is no bound child of the field's own schema object.
BadElement ==
    /\ RightContainer
    /\ \E n \in 1..Len(Given) :
         LET e == ArgVals(last.value)[n]
         IN  ~IsBound(e) \/ e.d_value # last.field.d_value.id
BadKey ==
    /\ Assigned("CompoundDictField") /\ RightContainer
    /\ \E n \in 1..Len(Given) :
         ~IsInstance(ArgKeys(last.value)[n], last.field.keytype)
Refused ==
    \/ WrongObjectType \/ UnboundObject \/ MismatchedFieldSet
    \/ NotTheContainer \/ BadElement \/ BadKey

\* C5 as stated: every refused whole-value assignment raises ValueError.
C5_AlwaysValueError ==
    (AssignedAny /\ (Refused \/ last.exc # "none")) =>
        last.exc = "ValueError"

\* C5, amended: every refused whole-value assignment raises at once and
\* writes nothing.  A value that is no list / no dict given to a
\* CompoundListField / CompoundDictField raises TypeError; every other
\* refusal raises ValueError, except that the field-set mismatch of a plain
\* (not bound) CompoundValue with a document raises while its message
\* reads value.d_value: ValueError, or AttributeError if the object has no
\* such attribute.  No assignment is refused silently.
C5_RefusedAssignmentRaises ==
    AssignedAny =>
        /\ Refused <=> last.exc # "none"
        /\ last.exc # "none" <=> ~last.wrote
        /\ NotTheContainer => last.exc = "TypeError"
        /\ (Refused /\ ~NotTheContainer) =>
               \/ last.exc = "ValueError"
               \/ /\ last.exc = "AttributeError"
                  /\ MismatchedFieldSet
                  /\ ~IsBound(Given)

\* A value that is no list was given to the compound list field.
C5_Witness ==
    /\ Assigned("CompoundListField")
    /\ NotTheContainer
    /\ last.exc = "TypeError"
    /\ ~last.wrote

\* A bound child of the unrelated second compound list field.
UnrelatedChild(o) == IsBound(o) /\ o.d_value = Cars2Field.d_value.id

\* C6: a CompoundListField takes a whole value only if it is a list whose
\* every element is a bound compound view with the field's own schema
\* object (the same object, not an equal one); a list with a bound child of
\* another, unrelated CompoundListField in it is refused with ValueError.
C6_ListAssignmentByIdentity ==
    Assigned("CompoundListField") =>
        /\ last.exc = "none" =>
               /\ last.value.kind = "list"
               /\ \A n \in 1..Len(Given) :
                     /\ IsBound(Given[n])
                     /\ Given[n].d_value = last.field.d_value.id
        /\ ( /\ last.value.kind = "list"
             /\ last.field # Cars2Field
             /\ \E n \in 1..Len(Given) : UnrelatedChild(Given[n]) ) =>
               (last.exc = "ValueError" /\ ~last.wrote)

\* A list of one own child and one child of the other list was refused.
C6_Witness ==
    /\ Assigned("CompoundListField")
    /\ last.value.kind = "list"
    /\ Len(Given) = 2
    /\ IsBound(Given[1]) /\ Given[1].d_value = last.field.d_value.id
    /\ UnrelatedChild(Given[2])
    /\ SameFields(Given[2], last.field)
    /\ last.exc = "ValueError"

\* Every object given is a bound value whose schema has the fields of the
\* assigned field's schema (and the container and its keys are right).
AllSameShaped ==
    IF Assigned("CompoundField")
    THEN IsBound(Given) /\ SameFields(Given, last.field)
    ELSE /\ RightContainer
         /\ ~BadKey
         /\ \A n \in 1..Len(Given) :
               /\ IsBound(ArgVals(last.value)[n])
               /\ SameFields(ArgVals(last.value)[n], last.field)

\* C7 as stated: all three kinds of field take a bound value whose schema
\* is another object with the same fields.
C7_StructuralForAllThree ==
    (AssignedAny /\ AllSameShaped) => last.exc = "none"

\* C7, amended: a CompoundField decides by equality of the schemas' field
\* sets and takes a bound value whose schema is another object with the
\* same fields; a CompoundListField and a CompoundDictField decide by the
\* identity of the schema object and refuse such a value with ValueError.
C7_StructuralOnlyForCompoundField ==
    (AssignedAny /\ AllSameShaped) =>
        /\ Assigned("CompoundField") => last.exc = "none"
        /\ ~Assigned("CompoundField") =>
             ((last.exc = "none") <=>
                  \A n \in 1..Len(Given) :
                      ArgVals(last.value)[n].d_value = last.field.d_value.id)
        /\ last.exc \in {"none", "ValueError"}

\* The compound dict field refused a dict of one bound value whose schema
\* is another object with the same fields.
C7_Witness ==
    /\ Assigned("CompoundDictField")
    /\ AllSameShaped
    /\ Len(Given) = 1
    /\ ArgVals(last.value)[1].d_value # last.field.d_value.id
    /\ last.exc = "ValueError"

\* C8: a CompoundDictField takes a whole value exactly when it is a dict
\* whose every key is of the declared key type and whose every value is a
\* bound child of the field's schema object; the field's slice is then the
\* mapping from each key to that child's slice, with the keys of the value.
C8_DictAssignment ==
    Assigned("CompoundDictField") =>
        /\ (last.exc = "none") <=>
               /\ last.value.kind = "dict"
               /\ \A n \in 1..Len(Given) :
                     /\ IsInstance(ArgKeys(last.value)[n], last.field.keytype)
                     /\ IsBound(ArgVals(last.value)[n])
                     /\ ArgVals(last.value)[n].d_value = last.field.d_value.id
        /\ last.exc = "none" =>
               LET slice == heap[SliceAddr(heap, last.field)] IN
               /\ SliceAddr(heap, last.field) = last.addr
               /\ IsInstance(slice, "dict")
               /\ DictKeys(slice) = {ArgKeys(last.value)[n] :
                                         n \in 1..Len(Given)}
               /\ Len(slice.val) = Len(Given)
               /\ \A n \in 1..Len(Given) :
                     DictGet(slice, ArgKeys(last.value)[n])
                         = RefV(ArgVals(last.value)[n].d_data)

\* A dict of one string key and one own child went through.
C8_Witness ==
    /\ Assigned("CompoundDictField")
    /\ last.value.kind = "dict"
    /\ Len(Given) = 1
    /\ last.exc = "none"
    /\ Len(heap[SliceAddr(heap, last.field)].val) = 1

\* C18: a CompoundField assignment rejects with a validation error
\* (ValueError) every source object that has no live document (d_data
\* missing or None), whether or not its field set matches the field's, and
\* writes nothing.
C18_UnboundSourceRejected ==
    (Assigned("CompoundField") /\ Given.d_data = NoAddr) =>
        /\ last.exc = "ValueError"
        /\ ~last.wrote
        /\ last.addr = NoAddr

\* A free-standing Car value given to the car field, whose field set it
\* matches.
C18_Witness ==
    /\ Assigned("CompoundField")
    /\ Given.type = "CompoundValue"
    /\ Given.d_data = NoAddr
    /\ SameFields(Given, last.field)
    /\ last.exc = "ValueError"
    /\ ~last.wrote

\* Two views of the same field of the same object, neither taken before
\* a whole-value assignment to the field.
SameFieldViews(i, j) ==
    /\ views[i].obj = views[j].obj
    /\ views[i].field = views[j].field
    /\ ~views[i].stale
    /\ ~views[j].stale

ContainerStep ==
    /\ nops' = nops + 1
    /\ last'.op \in {"CompoundListField", "CompoundDictField"}
    /\ last'.exc = "none"
ViewStep ==
    /\ nops' = nops + 1
    /\ last'.op = "setattr"
    /\ iso.dst # NoAddr
    /\ last'.addr \in iso.elems
GivenStep ==
    /\ nops' = nops + 1
    /\ last'.op = "given"

\* C31: a compound list or dict assignment that goes through stores a new
\* container (not the one passed, no object there was before) whose
\* elements are the very slices of the views assigned, under the keys
\* given, the slices left as they were; afterwards a mutation through one
\* of these views shows in the field's slice of the document, and adding
\* or removing elements of the container that was passed changes neither
\* the stored container nor anything else in the document.
C31_ElementsSharedContainerNew ==
    [][ /\ ContainerStep =>
             /\ SliceAddr(heap', last'.field) = iso'.dst
             /\ iso'.dst \notin DOMAIN heap
             /\ iso'.dst # iso'.src
             /\ heap'[iso'.dst] = GivenContainer(last'.value)
             /\ Refs(heap'[iso'.dst]) = iso'.elems
             /\ \A a \in iso'.elems : a \in DOMAIN heap /\ heap'[a] = heap[a]
        /\ ViewStep =>
             /\ iso.dst \in {SliceAddr(heap', f) :
                                f \in CompoundListFields \cup CompoundDictFields}
             /\ Tree(heap', iso.dst) # Tree(heap, iso.dst)
        /\ GivenStep =>
             /\ heap'[iso.src] # heap[iso.src]
             /\ heap'[iso.dst] = heap[iso.dst]
             /\ Tree(heap', RootAddr) = Tree(heap, RootAddr)
      ]_vars

\* A list of the field's child was assigned; the caller then changed its
\* list, which the stored one did not follow, and set the color through
\* the view, which the stored list shows.
C31_Witness ==
    /\ iso.dst # NoAddr
    /\ last.op = "setattr"
    /\ last.addr \in iso.elems
    /\ last.addr \in Refs(heap[iso.dst])
    /\ SliceAddr(heap, CarsField) = iso.dst
    /\ heap[iso.src] # heap[iso.dst]
    /\ DictGet(heap[last.addr], K_color) # DictGet(InitHeap[last.addr], K_color)

(***************************************************************************)
(* The app (babase/_app.py).  "app" holds the fields of the App object,    *)
(* the jobs submitted to its thread pool and not yet run (pool), the calls *)
(* pushed to the logic thread and not yet run (logicq, first in first      *)
(* out), and the inputs fixed at start: whether the plus subsystem is      *)
(* there, the exec argument, whether a subsystem's on_app_running          *)
(* registers one more subsystem, and which app mode callbacks raise.       *)
(* "calls" is the record of the set_intent calls made so far and of what   *)
(* became of each; a job is the number of the call that submitted it.      *)
(* A subsystem is recorded with the number of on_app_running and of        *)
(* on_app_suspend callbacks it got; a shutdown task with how far it got;   *)
(* applies_since_push is the number of times the app config was applied    *)
(* since the latest push_apply_app_config; add_task_results is how each    *)
(* add_shutdown_task call so far ended; mode_calls is what the latest      *)
(* _apply_intent that got past its first test did to app modes, in order.  *)
(***************************************************************************)
NoIntent == "none"
NoMode   == [type |-> "none", id |-> 0]
NoCall   == 0

\* How many subsystems are registered from outside, how many times the
\* app is brought back to the foreground, how many shutdown tasks are
\* added and how many times push_apply_app_config is called.
MaxSubsystems    == 1
MaxSuspends      == 1
MaxShutdownTasks == 1
MaxConfigPushes  == 2

\* Intents handed to set_intent from outside, and the two the app makes.
UserIntents == {"i1", "i2"}

\* AppMode.can_handle_intent of the two default app modes.  Both handle
\* "i1" (the default selector answers the first, a plugin's selector the
\* second, so that the app can switch modes); no mode handles "i2".
can_handle_intent(modetype, intent) ==
    CASE modetype = "SceneV1AppMode" -> intent \in {"default", "exec", "i1"}
      [] modetype = "EmptyAppMode"   -> intent \in {"default", "exec", "i1"}
      [] OTHER                       -> FALSE

\* DefaultAppModeSelector.app_mode_for_intent: the first of the default
\* app modes that can handle the intent, or None.
DefaultAppModeSelector_app_mode_for_intent(intent) ==
    IF can_handle_intent("SceneV1AppMode", intent) THEN "SceneV1AppMode"
    ELSE IF can_handle_intent("EmptyAppMode", intent) THEN "EmptyAppMode"
    ELSE "none"

\* app_mode_for_intent of the selector in place.  A selector set by a
\* plugin answers EmptyAppMode for every intent.
app_mode_for_intent(selector, intent) ==
    IF selector = "default"
    THEN DefaultAppModeSelector_app_mode_for_intent(intent)
    ELSE "EmptyAppMode"

\* App.__init__
\* _shutdown_tasks as __init__ leaves it: _wait_for_shutdown_suppressions,
\* _fade_and_shutdown_graphics, _fade_and_shutdown_audio.
InitialShutdownTasks == <<"accepted", "accepted", "accepted">>

InitialApp(plus, exec_arg, registers_late, raisers) ==
    [ state |-> "NOT_STARTED",
      fg_state |-> 0,
      native_bootstrapping_completed |-> FALSE,
      init_completed |-> FALSE,
      meta_scan_completed |-> FALSE,
      native_start_called |-> FALSE,
      native_suspended |-> FALSE,
      native_shutdown_called |-> FALSE,
      native_shutdown_complete_called |-> FALSE,
      initial_sign_in_completed |-> FALSE,
      called_on_initing |-> FALSE,
      called_on_loading |-> FALSE,
      called_on_running |-> FALSE,
      subsystem_registration_ended |-> FALSE,
      subsystems |-> <<>>,
      pending_apply_app_config |-> FALSE,
      config_pushes |-> 0,
      applies_since_push |-> 0,
      shutdown_tasks |-> InitialShutdownTasks,
      add_task_results |-> <<>>,
      shutdown_task |-> "none",
      complete_shutdown_pushes |-> 0,
      shutdown_complete_runs |-> 0,
      mode_calls |-> <<>>,
      registers_late |-> registers_late,
      raisers |-> raisers,
      pending_intent |-> NoIntent,
      intent |-> NoIntent,
      mode |-> NoMode,
      mode_selector |-> "none",
      pool |-> {},
      logicq |-> <<>>,
      calls |-> <<>>,
      plus |-> plus,
      exec_arg |-> exec_arg ]

\* A call pushed to the logic thread (_babase.pushcall).
QueuedCall(fn, call, intent, mode) ==
    [fn |-> fn, call |-> call, intent |-> intent, mode |-> mode]
pushcall(a, item) == [a EXCEPT !.logicq = Append(@, item)]

\* What became of a set_intent call.
CallRecord(intent, outcome, latest) ==
    [intent |-> intent, outcome |-> outcome, latest |-> latest,
     found |-> "unknown"]
SetOutcome(a, c, outcome) == [a EXCEPT !.calls[c].outcome = outcome]
SetApplyOutcome(a, c, outcome) ==
    [a EXCEPT !.calls[c].outcome = outcome,
              !.calls[c].latest = a.calls[Len(a.calls)].intent]

\* App.set_intent: mark the intent as pending, at once, and submit the
\* _set_intent job to the thread pool.
set_intent(a, intent) ==
    [a EXCEPT !.pending_intent = intent,
              !.pool = @ \cup {Len(a.calls) + 1},
              !.calls = Append(@, CallRecord(intent, "submitted", NoIntent))]

\* The mode_selector property: the selector, or RuntimeError when none is
\* set yet.
mode_selector_get(a) ==
    IF a.mode_selector = "none" THEN "RuntimeError" ELSE a.mode_selector

\* The try block of _set_intent: the app mode type for the intent, or
\* the exception raised on the way to it.
set_intent_modetype(a, intent) ==
    IF mode_selector_get(a) = "RuntimeError" THEN "RuntimeError"
    ELSE LET modetype == app_mode_for_intent(mode_selector_get(a), intent)
         IN  IF modetype = "none" THEN "RuntimeError"
             ELSE IF ~can_handle_intent(modetype, intent) THEN "RuntimeError"
             ELSE modetype

\* App._set_intent, the background job of call c: push _apply_intent with
\* a new instance of the mode found, or _display_set_intent_error when
\* the search raised.
App_set_intent(a, c) ==
    LET intent   == a.calls[c].intent
        modetype == set_intent_modetype(a, intent)
        a1       == [a EXCEPT !.pool = @ \ {c}, !.calls[c].found = modetype]
    IN  IF modetype = "RuntimeError"
        THEN pushcall(SetOutcome(a1, c, "error_pushed"),
                      QueuedCall("_display_set_intent_error", c, intent,
                                 NoMode))
        ELSE pushcall(SetOutcome(a1, c, "apply_pushed"),
                      QueuedCall("_apply_intent", c, intent,
                                 [type |-> modetype, id |-> c]))

\* Variants of the test that opens _apply_intent: one that lets every
\* intent through, one that compares with the _intent field.
is_pending_always(a, intent) == TRUE
is_pending_stale(a, intent) == intent = a.intent

\* The test that opens _apply_intent: is the intent still the pending one?
is_pending(a, intent) == intent = a.pending_intent

\* The callbacks of an app mode that may raise.
ModeCallbacks == {"on_deactivate", "on_activate", "handle_intent"}

\* One step of _apply_intent on the mode instance id: a callback (inside
\* try/except: a raise is logged and the next statement runs), the
\* assignment to _mode, or _babase.on_initial_app_mode_set.
mode_call(a, fn, id) ==
    [a EXCEPT !.mode_calls =
        Append(@, [fn |-> fn, id |-> id, raised |-> fn \in a.raisers])]

\* A variant of the switch that activates the new mode before it
\* deactivates the old one.
App_switch_mode_activate_first(a, mode) ==
    LET a1 == mode_call([a EXCEPT !.mode = mode], "_mode", mode.id)
        a2 == mode_call(a1, "on_activate", mode.id)
    IN  IF a.mode = NoMode
        THEN mode_call(a2, "on_initial_app_mode_set", mode.id)
        ELSE mode_call(a2, "on_deactivate", a.mode.id)

\* The switch of _apply_intent: on_deactivate of the mode in place if
\* there is one, _mode = mode, on_activate of the new mode, and
\* on_initial_app_mode_set when there was no mode.
App_switch_mode(a, mode) ==
    LET a1 == IF a.mode = NoMode THEN a
              ELSE mode_call(a, "on_deactivate", a.mode.id)
        a2 == mode_call([a1 EXCEPT !.mode = mode], "_mode", mode.id)
        a3 == mode_call(a2, "on_activate", mode.id)
    IN  IF a.mode = NoMode
        THEN mode_call(a3, "on_initial_app_mode_set", mode.id)
        ELSE a3

\* App._apply_intent, run on the logic thread for call c: nothing when the
\* intent is no longer the pending one; else the switch when the type of
\* mode is not the type of _mode, then mode.handle_intent(intent).
App_apply_intent(a, c, intent, mode) ==
    IF ~is_pending(a, intent)
    THEN SetApplyOutcome(a, c, "dropped")
    ELSE LET a0 == [a EXCEPT !.mode_calls = <<>>]
             a1 == IF mode.type # a0.mode.type
                   THEN App_switch_mode(a0, mode)
                   ELSE a0
             a2 == mode_call(a1, "handle_intent", mode.id)
         IN  SetApplyOutcome(a2, c, "applied")

\* App._display_set_intent_error
App_display_set_intent_error(a, c) == SetOutcome(a, c, "error_shown")

\* A subsystem as register_subsystem takes it in, and the list after one
\* callback went to every subsystem of it.
Subsystem(id) == [id |-> id, running |-> 0, suspend |-> 0]
on_app_running(subsystems) ==
    [i \in DOMAIN subsystems |-> [subsystems[i] EXCEPT !.running = @ + 1]]
on_app_suspend(subsystems) ==
    [i \in DOMAIN subsystems |-> [subsystems[i] EXCEPT !.suspend = @ + 1]]

\* App.register_subsystem: RuntimeError once registration has ended (the
\* app is left as it was), else the subsystem joins the list.
register_subsystem_raises(a) == a.subsystem_registration_ended
App_register_subsystem(a) ==
    IF register_subsystem_raises(a) THEN a
    ELSE [a EXCEPT !.subsystems = Append(@, Subsystem(Len(@) + 1))]

\* Variants: an add_shutdown_task that refuses only once shutdown is
\* complete, and a _run_shutdown_task without its except clause, where a
\* task that raises makes the task group cancel the tasks still running.
add_shutdown_task_raises_late(a) == a.state = "SHUTDOWN_COMPLETE"
App_run_shutdown_task_unguarded(a, i, outcome) ==
    [a EXCEPT !.shutdown_tasks =
        [j \in DOMAIN @ |->
            IF j = i THEN outcome
            ELSE IF outcome = "raised" /\ @[j] = "running" THEN "cancelled"
            ELSE @[j]]]

\* App.add_shutdown_task: RuntimeError once shutdown has begun (the app is
\* left as it was), else the task joins the list.
add_shutdown_task_raises(a) ==
    a.state \in {"SHUTTING_DOWN", "SHUTDOWN_COMPLETE"}
App_add_shutdown_task(a) ==
    IF add_shutdown_task_raises(a)
    THEN [a EXCEPT !.add_task_results = Append(@, "RuntimeError")]
    ELSE [a EXCEPT !.shutdown_tasks = Append(@, "accepted"),
                   !.add_task_results = Append(@, "accepted")]

\* App.push_apply_app_config
App_push_apply_app_config(a) ==
    pushcall([a EXCEPT !.pending_apply_app_config = TRUE,
                       !.config_pushes = @ + 1,
                       !.applies_since_push = 0],
             QueuedCall("_apply_app_config", NoCall, NoIntent, NoMode))

\* The value of the _pending_apply_app_config attribute after
\* "_pending_apply_app_config = False" in _apply_app_config: the statement
\* binds a local name, the attribute keeps its value.
pending_after_apply(a) == a.pending_apply_app_config

\* App._apply_app_config: nothing when no apply is pending; else
\* do_apply_app_config of every subsystem and of the native layer.
App_apply_app_config(a) ==
    IF ~a.pending_apply_app_config THEN a
    ELSE [a EXCEPT !.pending_apply_app_config = pending_after_apply(a),
                   !.applies_since_push = @ + 1]

\* The outcomes of a shutdown task under _run_shutdown_task: it finishes,
\* it raises an Exception (logged), or wait_for cancels it after
\* SHUTDOWN_TASK_TIMEOUT_SECONDS and raises TimeoutError (logged).
ShutdownTaskOutcomes == {"finished", "raised", "timeout"}

\* App._shutdown up to the task group: one _run_shutdown_task is created
\* for every task of _shutdown_tasks.
App_shutdown_start(a) ==
    [a EXCEPT !.shutdown_task = "running",
              !.shutdown_tasks = [i \in DOMAIN @ |-> "running"]]

\* App._run_shutdown_task of task i comes to its end.
App_run_shutdown_task(a, i, outcome) ==
    [a EXCEPT !.shutdown_tasks[i] = outcome]

\* The task group of _shutdown is left once every task in it is done.
task_group_done(a) ==
    \A i \in DOMAIN a.shutdown_tasks : a.shutdown_tasks[i] # "running"

\* App._shutdown after the task group: push complete_shutdown.
App_shutdown_finish(a) ==
    pushcall([a EXCEPT !.shutdown_task = "done",
                       !.complete_shutdown_pushes = @ + 1],
             QueuedCall("complete_shutdown", NoCall, NoIntent, NoMode))

\* App._on_loading: start the meta scan; without a plus subsystem, push
\* on_initial_sign_in_complete to the logic thread.
App_on_loading(a) ==
    IF ~a.plus
    THEN pushcall(a, QueuedCall("on_initial_sign_in_complete", NoCall,
                                NoIntent, NoMode))
    ELSE a

\* App._on_running: the default selector when none is set, on_app_running
\* to every subsystem of a copy of the list (a callback may register one
\* more subsystem meanwhile), the end of registration, the first intent.
App_on_running(a) ==
    LET a1 == IF a.mode_selector = "none"
              THEN [a EXCEPT !.mode_selector = "default"]
              ELSE a
        copy == a1.subsystems
        a1b == [a1 EXCEPT !.subsystems = on_app_running(copy)]
        a1c == IF a.registers_late /\ copy # <<>>
               THEN App_register_subsystem(a1b)
               ELSE a1b
        a2 == [a1c EXCEPT !.subsystem_registration_ended = TRUE]
    IN  IF a2.exec_arg # "none" THEN set_intent(a2, "exec")
        ELSE IF a2.pending_intent = NoIntent THEN set_intent(a2, "default")
        ELSE a2

\* A variant of _on_suspend that tells no subsystem.
App_on_suspend_silent(a) == a

\* App._on_suspend: on_app_suspend to every subsystem.
App_on_suspend(a) == [a EXCEPT !.subsystems = on_app_suspend(@)]

\* App._on_unsuspend: fg_state goes up, on_app_unsuspend to every subsystem.
App_on_unsuspend(a) == [a EXCEPT !.fg_state = @ + 1]

\* App._on_shutting_down: on_app_shutdown to every subsystem, then the
\* _shutdown coroutine is handed to the asyncio loop.
App_on_shutting_down(a) == [a EXCEPT !.shutdown_task = "scheduled"]

\* App._on_shutdown_complete: on_app_shutdown_complete to every subsystem.
App_on_shutdown_complete(a) == [a EXCEPT !.shutdown_complete_runs = @ + 1]

\* Variants of the tests of _update_state: a state entered anew on every
\* call, a shutdown that does not wait for the init.
entering_always(a, state) == TRUE
shutting_down_due_early(a) == a.native_shutdown_called

\* The tests of _update_state: is the app entering the state (the _on_...
\* handler of a state runs only then), and is a shutdown due?
entering(a, state) == a.state # state
shutting_down_due(a) == a.native_shutdown_called /\ a.init_completed

\* App._update_state.  _on_initing marks the init as completed and calls
\* _update_state again.
RECURSIVE App_update_state(_)
App_on_initing(a) == App_update_state([a EXCEPT !.init_completed = TRUE])
App_update_state(a) ==
    IF a.native_shutdown_complete_called
    THEN IF entering(a, "SHUTDOWN_COMPLETE")
         THEN App_on_shutdown_complete([a EXCEPT !.state = "SHUTDOWN_COMPLETE"])
         ELSE a
    ELSE IF shutting_down_due(a)
    THEN IF entering(a, "SHUTTING_DOWN")
         THEN App_on_shutting_down([a EXCEPT !.state = "SHUTTING_DOWN"])
         ELSE a
    ELSE IF a.native_suspended
    THEN IF entering(a, "SUSPENDED")
         THEN App_on_suspend([a EXCEPT !.state = "SUSPENDED"])
         ELSE a
    ELSE
    LET a1 == IF a.state = "SUSPENDED" THEN App_on_unsuspend(a) ELSE a
    IN  IF a1.initial_sign_in_completed /\ a1.meta_scan_completed
        THEN IF entering(a1, "RUNNING")
             THEN IF ~a1.called_on_running
                  THEN App_on_running([a1 EXCEPT !.state = "RUNNING",
                                                 !.called_on_running = TRUE])
                  ELSE [a1 EXCEPT !.state = "RUNNING"]
             ELSE a1
        ELSE IF a1.init_completed
        THEN IF entering(a1, "LOADING")
             THEN IF ~a1.called_on_loading
                  THEN App_on_loading([a1 EXCEPT !.state = "LOADING",
                                                 !.called_on_loading = TRUE])
                  ELSE [a1 EXCEPT !.state = "LOADING"]
             ELSE a1
        ELSE IF a1.native_bootstrapping_completed
        THEN IF entering(a1, "INITING")
             THEN IF ~a1.called_on_initing
                  THEN App_on_initing([a1 EXCEPT !.state = "INITING",
                                                 !.called_on_initing = TRUE])
                  ELSE [a1 EXCEPT !.state = "INITING"]
             ELSE a1
        ELSE IF a1.native_start_called
        THEN [a1 EXCEPT !.state = "NATIVE_BOOTSTRAPPING"]
        ELSE a1

\* App.on_native_start, on_native_bootstrapping_complete
App_on_native_start(a) ==
    App_update_state([a EXCEPT !.native_start_called = TRUE])
App_on_native_bootstrapping_complete(a) ==
    App_update_state([a EXCEPT !.native_bootstrapping_completed = TRUE])

\* App.on_initial_sign_in_complete
App_on_initial_sign_in_complete(a) ==
    App_update_state([a EXCEPT !.initial_sign_in_completed = TRUE])

\* App._on_meta_scan_complete
App_on_meta_scan_complete(a) ==
    App_update_state([a EXCEPT !.meta_scan_completed = TRUE])

\* App.on_native_suspend, on_native_unsuspend, on_native_shutdown,
\* on_native_shutdown_complete
App_on_native_suspend(a) ==
    App_update_state([a EXCEPT !.native_suspended = TRUE])
App_on_native_unsuspend(a) ==
    App_update_state([a EXCEPT !.native_suspended = FALSE])
App_on_native_shutdown(a) ==
    App_update_state([a EXCEPT !.native_shutdown_called = TRUE])
App_on_native_shutdown_complete(a) ==
    App_update_state([a EXCEPT !.native_shutdown_complete_called = TRUE])

\* The calls at the head of the logic thread's queue.
Head_is(fn) == app.logicq # <<>> /\ Head(app.logicq).fn = fn
Popped == [app EXCEPT !.logicq = Tail(@)]

\* Calls made from outside so far (the app itself makes at most one more,
\* in _on_running).
UserCalls ==
    Len(app.calls) - (IF app.called_on_running
                         /\ (app.exec_arg # "none"
                             \/ \E c \in 1..Len(app.calls) :
                                  app.calls[c].intent = "default")
                      THEN 1 ELSE 0)

AppStart(pluses, exec_args, lates, raiser_sets) ==
    app \in {InitialApp(plus, exec_arg, late, raisers) :
                plus \in pluses, exec_arg \in exec_args,
                late \in lates, raisers \in raiser_sets}

\* The native layer: on_native_start, on_native_bootstrapping_complete
OnNativeStart ==
    /\ ~app.native_start_called
    /\ app' = App_on_native_start(app)
    /\ UNCHANGED <<pureVars, entityVars>>
OnNativeBootstrappingComplete ==
    /\ app.native_start_called
    /\ ~app.native_bootstrapping_completed
    /\ app' = App_on_native_bootstrapping_complete(app)
    /\ UNCHANGED <<pureVars, entityVars>>

\* The plus subsystem reports the initial sign-in (when there is one).
OnInitialSignInComplete ==
    /\ app.plus
    /\ app.called_on_loading
    /\ ~app.initial_sign_in_completed
    /\ app' = App_on_initial_sign_in_complete(app)
    /\ UNCHANGED <<pureVars, entityVars>>

\* The logic thread runs the pushed on_initial_sign_in_complete.
RunInitialSignInComplete ==
    /\ Head_is("on_initial_sign_in_complete")
    /\ app' = App_on_initial_sign_in_complete(Popped)
    /\ UNCHANGED <<pureVars, entityVars>>

\* The meta scan started by _on_loading completes.
OnMetaScanComplete ==
    /\ app.called_on_loading
    /\ ~app.meta_scan_completed
    /\ app' = App_on_meta_scan_complete(app)
    /\ UNCHANGED <<pureVars, entityVars>>

\* app.mode_selector = selector, by a plugin (the setter)
SetModeSelector ==
    /\ app.mode_selector # "plugin"
    /\ app' = [app EXCEPT !.mode_selector = "plugin"]
    /\ UNCHANGED <<pureVars, entityVars>>

\* app.set_intent(intent), from outside
SetIntent ==
    /\ UserCalls < MaxSetIntent
    /\ \E intent \in UserIntents : app' = set_intent(app, intent)
    /\ UNCHANGED <<pureVars, entityVars>>

\* A thread of the pool runs a submitted _set_intent job.
RunSetIntent ==
    /\ \E c \in app.pool : app' = App_set_intent(app, c)
    /\ UNCHANGED <<pureVars, entityVars>>

\* The logic thread runs the pushed _apply_intent.
RunApplyIntent ==
    /\ Head_is("_apply_intent")
    /\ LET item == Head(app.logicq)
       IN  app' = App_apply_intent(Popped, item.call, item.intent, item.mode)
    /\ UNCHANGED <<pureVars, entityVars>>

\* The logic thread runs the pushed _display_set_intent_error.
RunDisplaySetIntentError ==
    /\ Head_is("_display_set_intent_error")
    /\ app' = App_display_set_intent_error(Popped, Head(app.logicq).call)
    /\ UNCHANGED <<pureVars, entityVars>>

\* The native layer: on_native_suspend, on_native_unsuspend (each asserts
\* that it alternates with the other), on_native_shutdown,
\* on_native_shutdown_complete.  on_native_start is the first call the
\* native layer makes.
OnNativeSuspend ==
    /\ app.native_start_called
    /\ ~app.native_suspended
    /\ app.fg_state < MaxSuspends
    /\ app' = App_on_native_suspend(app)
    /\ UNCHANGED <<pureVars, entityVars>>
OnNativeUnsuspend ==
    /\ app.native_suspended
    /\ app' = App_on_native_unsuspend(app)
    /\ UNCHANGED <<pureVars, entityVars>>
OnNativeShutdown ==
    /\ app.native_start_called
    /\ app' = App_on_native_shutdown(app)
    /\ UNCHANGED <<pureVars, entityVars>>
OnNativeShutdownComplete ==
    /\ app.native_start_called
    /\ app' = App_on_native_shutdown_complete(app)
    /\ UNCHANGED <<pureVars, entityVars>>

\* app.register_subsystem(subsystem), from outside
RegisterSubsystem ==
    /\ Len(app.subsystems) < MaxSubsystems
    /\ app' = App_register_subsystem(app)
    /\ UNCHANGED <<pureVars, entityVars>>

\* app.add_shutdown_task(coro), from outside
AddShutdownTask ==
    /\ Len(app.add_task_results) < MaxShutdownTasks
    /\ app' = App_add_shutdown_task(app)
    /\ UNCHANGED <<pureVars, entityVars>>

\* app.push_apply_app_config(), from outside
PushApplyAppConfig ==
    /\ app.config_pushes < MaxConfigPushes
    /\ app' = App_push_apply_app_config(app)
    /\ UNCHANGED <<pureVars, entityVars>>

\* The logic thread runs the pushed _apply_app_config.
RunApplyAppConfig ==
    /\ Head_is("_apply_app_config")
    /\ app' = App_apply_app_config(Popped)
    /\ UNCHANGED <<pureVars, entityVars>>

\* The asyncio loop runs _shutdown: first up to the task group, then each
\* task to its end, then the rest once the task group is done.
StartShutdown ==
    /\ app.shutdown_task = "scheduled"
    /\ app' = App_shutdown_start(app)
    /\ UNCHANGED <<pureVars, entityVars>>
ShutdownTaskEnds ==
    /\ app.shutdown_task = "running"
    /\ \E i \in DOMAIN app.shutdown_tasks, outcome \in ShutdownTaskOutcomes :
         /\ app.shutdown_tasks[i] = "running"
         /\ app' = App_run_shutdown_task(app, i, outcome)
    /\ UNCHANGED <<pureVars, entityVars>>
FinishShutdown ==
    /\ app.shutdown_task = "running"
    /\ task_group_done(app)
    /\ app' = App_shutdown_finish(app)
    /\ UNCHANGED <<pureVars, entityVars>>

\* The logic thread runs the pushed complete_shutdown (native).
RunCompleteShutdown ==
    /\ Head_is("complete_shutdown")
    /\ app' = Popped
    /\ UNCHANGED <<pureVars, entityVars>>

NextLife ==
    \/ OnNativeStart
    \/ OnNativeBootstrappingComplete
    \/ OnInitialSignInComplete
    \/ OnMetaScanComplete
    \/ OnNativeSuspend
    \/ OnNativeUnsuspend
    \/ OnNativeShutdown
    \/ OnNativeShutdownComplete
    \/ RegisterSubsystem
    \/ PushApplyAppConfig
    \/ RunApplyAppConfig

NextShutdown ==
    \/ OnNativeStart
    \/ OnNativeBootstrappingComplete
    \/ OnInitialSignInComplete
    \/ OnMetaScanComplete
    \/ OnNativeSuspend
    \/ OnNativeUnsuspend
    \/ OnNativeShutdown
    \/ OnNativeShutdownComplete
    \/ AddShutdownTask
    \/ StartShutdown
    \/ ShutdownTaskEnds
    \/ FinishShutdown
    \/ RunCompleteShutdown

NextApp ==
    \/ OnNativeStart
    \/ OnNativeBootstrappingComplete
    \/ OnInitialSignInComplete
    \/ RunInitialSignInComplete
    \/ OnMetaScanComplete
    \/ SetModeSelector
    \/ SetIntent
    \/ RunSetIntent
    \/ RunApplyIntent
    \/ RunDisplaySetIntentError

(***************************************************************************)
(* The specifications.  Each runs one part; the other parts stay as they   *)
(* start.                                                                  *)
(***************************************************************************)
InitPure ==
    PureStart(PureCalls) /\ EntityStart
        /\ AppStart({TRUE}, {"none"}, {FALSE}, {{}})
InitEntity ==
    PureStart({NoResult}) /\ EntityStart
        /\ AppStart({TRUE}, {"none"}, {FALSE}, {{}})
InitApp ==
    PureStart({NoResult}) /\ EntityStart
        /\ AppStart(BOOLEAN, {"none", "cmd"}, {FALSE}, {{}})

InitLife ==
    PureStart({NoResult}) /\ EntityStart
        /\ AppStart({TRUE}, {"none"}, BOOLEAN, {{}})

InitShutdown ==
    PureStart({NoResult}) /\ EntityStart
        /\ AppStart({TRUE}, {"none"}, {FALSE}, {{}})

InitMode ==
    PureStart({NoResult}) /\ EntityStart
        /\ AppStart(BOOLEAN, {"none"}, {FALSE}, SUBSET ModeCallbacks)

SpecPure   == InitPure /\ [][NextPure]_vars
SpecEntity == InitEntity /\ [][NextEntity]_vars
SpecShare  == InitEntity /\ [][NextShare]_vars
SpecApp    == InitApp /\ [][NextApp]_vars
SpecMode   == InitMode /\ [][NextApp]_vars
SpecLife   == InitLife /\ [][NextLife]_vars
SpecShutdown == InitShutdown /\ [][NextShutdown]_vars

\* The asyncio loop runs every coroutine handed to it, and wait_for ends
\* a shutdown task after SHUTDOWN_TASK_TIMEOUT_SECONDS at the latest.
AsyncioLoop ==
    \/ StartShutdown
    \/ ShutdownTaskEnds
    \/ FinishShutdown
FairSpecShutdown ==
    /\ SpecShutdown
    /\ WF_vars(AsyncioLoop)

\* The thread pool runs every submitted job and the logic thread runs
\* every pushed call.
LogicThread ==
    \/ RunInitialSignInComplete
    \/ RunApplyIntent
    \/ RunDisplaySetIntentError
FairSpecApp ==
    /\ SpecApp
    /\ WF_vars(RunSetIntent)
    /\ WF_vars(LogicThread)

(***************************************************************************)
(* Properties of the intent machinery (under SpecApp and FairSpecApp).     *)
(***************************************************************************)
CallIds == 1..Len(app.calls)
LastCall == app.calls[Len(app.calls)]
Applied(c) == app.calls[c].outcome = "applied"
Dropped(c) == app.calls[c].outcome = "dropped"

\* C3: whatever the order of set_intent calls, _set_intent jobs and
\* _apply_intent calls, an intent is applied (the mode switched for it,
\* handle_intent called with it) only if, when _apply_intent ran, it was
\* the intent most recently passed to set_intent; the mode in place was
\* made for a call that was applied; an intent that was superseded when
\* its _apply_intent ran was dropped.
C3_OnlyLatestIntentApplied ==
    /\ \A c \in CallIds :
         /\ Applied(c) => app.calls[c].intent = app.calls[c].latest
         /\ (app.calls[c].outcome \in {"applied", "dropped"}
               /\ app.calls[c].intent # app.calls[c].latest) => Dropped(c)
    /\ app.mode # NoMode =>
         /\ app.mode.id \in CallIds
         /\ Applied(app.mode.id)

\* The second call's intent was applied and the mode switched for it; the
\* first call's _apply_intent ran with its intent superseded and dropped
\* it.
C3_Witness ==
    /\ Len(app.calls) >= 2
    /\ Dropped(1)
    /\ app.calls[1].intent # app.calls[1].latest
    /\ Applied(2)
    /\ app.mode.id = 2

\* C4 as stated: under fair scheduling of the thread pool and of the logic
\* thread's queue, once set_intent calls stop, the last intent passed to
\* set_intent is eventually applied.
C4_LastIntentEventuallyApplied ==
    <>[](app.calls = <<>> \/ Applied(Len(app.calls)))

\* The last call came to its end: applied when its job found an app mode
\* that can handle the intent, shown as an error when the job raised.
LastCallResolved ==
    \/ /\ LastCall.found \notin {"unknown", "RuntimeError"}
       /\ LastCall.outcome = "applied"
    \/ /\ LastCall.found = "RuntimeError"
       /\ LastCall.outcome = "error_shown"

\* C4: under fair scheduling of the thread pool and of the logic thread's
\* queue, once set_intent calls stop, the last intent passed to set_intent
\* is eventually applied if its _set_intent job found an app mode that can
\* handle it; if the job raised (no selector set yet, no mode found, or
\* the mode found cannot handle the intent) the intent is never applied
\* and _display_set_intent_error is eventually run for it.
C4_LastIntentEventuallyResolved ==
    <>[](app.calls = <<>> \/ LastCallResolved)

\* set_intent was called twice before anything took place; both jobs and
\* both pushed calls have run; the first intent was dropped and the last
\* one applied, in the mode made for it.
C4_Witness ==
    /\ Len(app.calls) = 2
    /\ app.pool = {}
    /\ app.logicq = <<>>
    /\ Dropped(1)
    /\ app.calls[1].latest = app.calls[2].intent
    /\ Applied(2)
    /\ app.mode = [type |-> app.calls[2].found, id |-> 2]


(***************************************************************************)
(* Properties of the app's life cycle (under SpecLife and SpecShutdown).   *)
(***************************************************************************)
QueuedApplies ==
    {i \in DOMAIN app.logicq : app.logicq[i].fn = "_apply_app_config"}

\* C21 as stated: when push_apply_app_config is called several times
\* before the logic thread runs any of the queued _apply_app_config calls,
\* the app config is applied only once for the batch: after the latest
\* push, the queued calls apply the config at most once between them.
C21_AppliedOncePerBatch == app.applies_since_push <= 1

\* push_apply_app_config was called twice in a row, then the logic thread
\* ran both queued calls, and each of them applied the config.
C21_Witness ==
    /\ app.config_pushes = 2
    /\ QueuedApplies = {}
    /\ app.applies_since_push = 2


\* C22 as stated: subsystems are registered only while the app has not
\* reached running, and every subsystem whose register_subsystem call was
\* accepted gets on_app_running exactly once, also when it registers while
\* the on_app_running callbacks are being delivered: no subsystem gets it
\* twice, and once _on_running is over every subsystem of the list got it.
C22_AcceptedSubsystemsGetRunning ==
    \A i \in DOMAIN app.subsystems :
        /\ app.subsystems[i].running <= 1
        /\ app.subsystem_registration_ended => app.subsystems[i].running = 1

\* A subsystem registered before running got on_app_running, and its
\* callback registered a second subsystem: the call was accepted, the
\* second subsystem is in the list, and it never got on_app_running.
C22_Witness ==
    /\ app.state = "RUNNING"
    /\ app.subsystem_registration_ended
    /\ Len(app.subsystems) = 2
    /\ app.subsystems[1].running = 1
    /\ app.subsystems[2].running = 0


\* C23: once on_native_shutdown_complete has been called the state is
\* SHUTDOWN_COMPLETE and stays so whatever native callbacks come later
\* (suspend, unsuspend, shutdown, sign-in complete, meta-scan complete),
\* and _on_shutdown_complete has run exactly once; before that call it
\* has not run.
C23_ShutdownCompleteIsFinal ==
    IF app.native_shutdown_complete_called
    THEN app.state = "SHUTDOWN_COMPLETE" /\ app.shutdown_complete_runs = 1
    ELSE app.state # "SHUTDOWN_COMPLETE" /\ app.shutdown_complete_runs = 0

\* Shutdown was completed with no shutdown asked for, and a native
\* callback came after it: sign-in and meta scan are both complete, and
\* had the later of them come before the shutdown's completion with the
\* app in the foreground, _on_running would have been called.
C23_Witness ==
    /\ app.native_shutdown_complete_called
    /\ app.state = "SHUTDOWN_COMPLETE"
    /\ app.shutdown_complete_runs = 1
    /\ app.initial_sign_in_completed /\ app.meta_scan_completed
    /\ ~app.called_on_running
    /\ ~app.native_shutdown_called
    /\ ~app.native_suspended /\ app.fg_state = 0

SuspendCalled == ~app.native_suspended /\ app'.native_suspended
SuspendDelivered ==
    /\ Len(app'.subsystems) = Len(app.subsystems)
    /\ \A i \in DOMAIN app.subsystems :
         app'.subsystems[i].suspend = app.subsystems[i].suspend + 1

C28_FgStateCountsBothWays ==
    [][app'.fg_state =
         app.fg_state
           + (IF (app.state = "SUSPENDED") # (app'.state = "SUSPENDED")
              THEN 1 ELSE 0)]_vars

\* The app went to SUSPENDED and fg_state is still what __init__ made it.
C28_Witness ==
    /\ app.state = "SUSPENDED"
    /\ app.native_suspended
    /\ app.fg_state = 0


\* The tasks add_shutdown_task took in so far, and whether _shutdown has
\* gone through the list.
AcceptedTasks ==
    {c \in DOMAIN app.add_task_results : app.add_task_results[c] = "accepted"}
ShutdownStarted == app.shutdown_task \in {"running", "done"}
AddCalled == Len(app'.add_task_results) = Len(app.add_task_results) + 1
AddResult == app'.add_task_results[Len(app'.add_task_results)]
TasksAmong(statuses) ==
    \A i \in DOMAIN app.shutdown_tasks : app.shutdown_tasks[i] \in statuses

\* C26: add_shutdown_task raises RuntimeError and leaves the task list as
\* it is exactly when the state is SHUTTING_DOWN or SHUTDOWN_COMPLETE; in
\* every other state it appends the task; and when the app shuts down
\* through SHUTTING_DOWN, _shutdown starts every task of the list, which
\* holds the three tasks of __init__ and every task accepted.
C26_ShutdownTasksAcceptedAndStarted ==
    [][/\ AddCalled =>
            IF app.state \in {"SHUTTING_DOWN", "SHUTDOWN_COMPLETE"}
            THEN /\ AddResult = "RuntimeError"
                 /\ app'.shutdown_tasks = app.shutdown_tasks
            ELSE /\ AddResult = "accepted"
                 /\ app'.shutdown_tasks = Append(app.shutdown_tasks, "accepted")
       /\ Len(app'.shutdown_tasks)
             = Len(InitialShutdownTasks) + Cardinality(AcceptedTasks)'
       /\ ShutdownStarted' =>
             TasksAmong(ShutdownTaskOutcomes \cup {"running"})']_vars

\* A task was added while the app was suspended, the app then went through
\* SHUTTING_DOWN, and _shutdown started the task with the three others.
C26_Witness ==
    /\ app.add_task_results = <<"accepted">>
    /\ app.native_suspended
    /\ ShutdownStarted
    /\ Len(app.shutdown_tasks) = 4
    /\ app.shutdown_tasks[4] = "running"

\* C27: complete_shutdown is pushed exactly once, and only after every
\* shutdown task has finished, failed or been aborted by the timeout; a
\* task that raises or times out leaves the other tasks running and does
\* not stop the push: once _shutdown runs, complete_shutdown is pushed.
C27_CompleteShutdownAfterAllTasks ==
    /\ [](app.complete_shutdown_pushes
             = (IF app.shutdown_task = "done" THEN 1 ELSE 0))
    /\ [](app.shutdown_task = "done" => TasksAmong(ShutdownTaskOutcomes))
    /\ [](app.shutdown_task = "running"
             => TasksAmong(ShutdownTaskOutcomes \cup {"running"}))
    /\ (app.shutdown_task = "scheduled")
          ~> (app.complete_shutdown_pushes = 1)

\* complete_shutdown was pushed after one task raised, one timed out and
\* the two others, an added one among them, finished.
C27_Witness ==
    /\ app.complete_shutdown_pushes = 1
    /\ app.shutdown_task = "done"
    /\ app.shutdown_tasks = <<"raised", "finished", "timeout", "finished">>


(***************************************************************************)
(* Properties of the switch of app modes (under SpecMode).                 *)
(***************************************************************************)
\* A step in which _apply_intent runs with the pending intent, the mode
\* instance it was given, and what it did to which instance, in order.
ApplyStep ==
    /\ Head_is("_apply_intent")
    /\ app'.logicq = Tail(app.logicq)
    /\ Head(app.logicq).intent = app.pending_intent
GivenMode == Head(app.logicq).mode
ModeCalls(log) == [i \in DOMAIN log |-> <<log[i].fn, log[i].id>>]
IsClaimedCall(e) == e.fn # "on_initial_app_mode_set"
HandleCall == app.mode_calls[Len(app.mode_calls)]

\* C29: when _apply_intent applies an intent whose mode type is not the
\* active mode's, it calls on_deactivate of the old mode (if there is
\* one), then makes the new mode the active one, then calls its
\* on_activate, then its handle_intent, in this order and all of them,
\* whether or not on_deactivate or on_activate raises.
C29_SwitchOrder ==
    [][(ApplyStep /\ GivenMode.type # app.mode.type) =>
         /\ app'.mode = GivenMode
         /\ ModeCalls(SelectSeq(app'.mode_calls, IsClaimedCall))
              = (IF app.mode = NoMode THEN <<>>
                 ELSE << <<"on_deactivate", app.mode.id>> >>)
                \o << <<"_mode", GivenMode.id>>,
                      <<"on_activate", GivenMode.id>>,
                      <<"handle_intent", GivenMode.id>> >>]_vars

\* A mode was in place and an intent of another mode type was applied:
\* on_deactivate of the old mode raised, on_activate of the new mode
\* raised, and handle_intent was still called on the new mode, now the
\* active one.
C29_Witness ==
    /\ {"on_deactivate", "on_activate"} \subseteq app.raisers
    /\ Len(app.mode_calls) = 4
    /\ app.mode_calls[1].fn = "on_deactivate" /\ app.mode_calls[1].raised
    /\ app.mode_calls[3].fn = "on_activate" /\ app.mode_calls[3].raised
    /\ app.mode_calls[4].fn = "handle_intent"
    /\ app.mode_calls[4].id = app.mode.id
    /\ app.mode_calls[1].id # app.mode.id

\* C30 as stated: whenever _apply_intent calls handle_intent, the mode
\* object it is called on is the app's active mode (App._mode), also when
\* the intent maps to the mode type of the mode already active.
C30_HandleIntentOnActiveMode ==
    app.mode_calls # <<>> =>
        /\ HandleCall.fn = "handle_intent"
        /\ HandleCall.id = app.mode.id

\* An intent of the active mode's type was applied: no switch, and
\* handle_intent went to the instance made for this call, not to the
\* active mode.
C30_Witness ==
    /\ app.mode_calls # <<>>
    /\ Len(app.mode_calls) = 1
    /\ HandleCall.fn = "handle_intent"
    /\ HandleCall.id # app.mode.id
    /\ app.mode # NoMode
    /\ app.calls[HandleCall.id].found = app.mode.type
    /\ Applied(HandleCall.id)

=============================================================================
